---- MODULE Spec2Model ----
(***************************************************************************)
(* Verification model of blustream-standalone.                             *)
(*                                                                         *)
(* Part I  (Spec)    : the TCP StreamingServer of                          *)
(*                     src/server/src/streaming_server.cpp: accept thread, *)
(*                     detached handle_client threads, render thread with  *)
(*                     broadcast_frame, one ClientConnection::send_loop    *)
(*                     thread per client, and stop().                      *)
(* Part II (SpecRTC) : the WebRTCServer session registry, control messages *)
(*                     and render loop of src/server/src/webrtc_server.cpp *)
(*                     and src/server/src/webrtc_session.cpp.              *)
(***************************************************************************)
EXTENDS Integers, Sequences, FiniteSets, TLC

\* ------------------------------------------------------------------------
\* Bounds
\* ------------------------------------------------------------------------
\* number of encoded packets the render thread broadcasts in one run
MaxFrames == 2
\* TCP connections that may be accepted, in accept order
Conns == {1, 2}
\* encoder packets avcodec_receive_packet may hand out for one tick
PacketsPerTick == {0, 1, 2}
\* iterations of WebRTCServer::render_loop (the clock counts frame periods)
MaxTime == 2
\* slices along each axis of the loaded volume
NumSlices == 2
\* SessionConfig::animation_duration, in frame periods
AnimTicks == 2
\* WebRTCServer::Config::max_sessions as configured
max_sessions == 2
\* messages the server writes to the client's connection
MaxMsgs == 3
\* largest payload_size of such a message, in blocks of sizeof(MessageHeader)
MaxPayload == 1
\* frames the render thread leaves in the send queue at most
MaxQueued == 2
\* packets the encoder returns while the statistics are observed
MaxEncoded == 3
\* API calls made to the WebRTC server by the signalling threads
MaxCalls == 4
\* end of the time axis of the pacing model and longest duration of the
\* render and encode work of one tick, in clock units
MaxClock == 20
MaxWork == 9
\* frame_duration_ (1 / fps), in clock units
FrameDuration == 2
\* enhanced_render_loop resets the schedule when frames_behind > 2
BehindLimit == 2
\* session ids and client ids offered to the registry operations
RegSessions == {"A", "B", "C"}
RegClients == {"c1", "c2"}
\* session ids and client ids offered together with control messages
CtlSessions == {"A", "B"}
CtlClients == {"c1"}

\* ------------------------------------------------------------------------
\* Part I : StreamingServer / ClientConnection
\* ------------------------------------------------------------------------
VARIABLES
    running_,        \* StreamingServer::running_
    stoppc,          \* position of the thread executing stop()
    acceptpc,        \* position of accept_clients_loop
    renderpc,        \* position of render_loop / encode_and_send_frame
    pkts,            \* packets still to be received from the encoder this tick
    bcIdx,           \* index of broadcast_frame's loop over clients_
    published,       \* number of broadcast_frame calls begun (frame ids 1..published)
    clients_mutex_,  \* holder of StreamingServer::clients_mutex_
    clients_,        \* StreamingServer::clients_ (list of connections)
    regAt,           \* value of published when the connection was pushed to clients_
    connected_,      \* ClientConnection::connected_
    socket_open,     \* ClientConnection::socket_fd_ >= 0
    send_queue_,     \* ClientConnection::send_queue_
    queue_mutex_,    \* holder of ClientConnection::queue_mutex_
    sendpc,          \* position of ClientConnection::send_loop
    cur,             \* send_loop's local `data` (frame popped, being written)
    wire,            \* what has been written to the connection's socket, in order
    hcpc,            \* position of the detached handle_client thread
    stack_sequence,  \* content of the never-assigned MessageHeader::sequence
                     \* on the stacks of the threads start() creates
    is_running_      \* NetworkServer::is_running_ (the listening socket is open)

tcpvars == <<running_, stoppc, acceptpc, renderpc, pkts, bcIdx, published,
             clients_mutex_, clients_, regAt, connected_, socket_open,
             send_queue_, queue_mutex_, sendpc, cur, wire, hcpc,
             stack_sequence, is_running_>>

\* ------------------------------------------------------------------------
\* Part II : WebRTCServer / WebRTCSession state
\* ------------------------------------------------------------------------
VARIABLES
    rtc_running,            \* WebRTCServer::running_
    sessions_,              \* WebRTCServer::sessions_ (map id -> WebRTCSession)
    animation_start_time_,  \* WebRTCServer::animation_start_time_
    now,                    \* steady_clock::now(), in frame periods
    ret,                    \* value returned to the caller by the last API call
    pc_open,                \* PeerConnections created and not yet Close()d,
                            \* as <<session id, client id>>
    media_alive             \* ids of the sessions whose media_stream_,
                            \* video_track_ and video_source_ are held

rtcvars == <<rtc_running, sessions_, animation_start_time_, now, ret,
             pc_open, media_alive>>

\* ------------------------------------------------------------------------
\* Part III : frame pacing of the render loops
\* ------------------------------------------------------------------------
VARIABLES
    pace_loop,         \* the render loop that is running, "none" before it starts
    clock,             \* std::chrono::steady_clock::now()
    next_frame_time_,  \* next_frame_time_ / next_frame_time of the loop
    frames_dropped,    \* stats_.frames_dropped
    frame_start        \* time at which the production of the latest tick began

pacevars == <<pace_loop, clock, next_frame_time_, frames_dropped, frame_start>>

\* ------------------------------------------------------------------------
\* Part IV : StreamingClient (the test client's end of a connection)
\* ------------------------------------------------------------------------
VARIABLES
    cl_pc,            \* position of connect_to_server / receive_loop
    cl_main,          \* position of the client's main() after start_receiving
    cl_connected_,    \* StreamingClient::connected_
    cl_socket_open,   \* StreamingClient::socket_fd_ >= 0
    cl_rx,            \* what the server has written and the client not yet read
    cl_sent,          \* number of messages the server has written
    cl_size,          \* header.payload_size of the frame being received
    cl_errors,        \* error reports about an invalid header
    frames_received   \* stats_.frames_received

clvars == <<cl_pc, cl_main, cl_connected_, cl_socket_open, cl_rx, cl_sent,
            cl_size, cl_errors, frames_received>>

basevars == <<tcpvars, rtcvars, pacevars, clvars>>

\* ------------------------------------------------------------------------
\* Part V : the threads of the WebRTC server around sessions_mutex_
\* ------------------------------------------------------------------------
VARIABLES
    sessions_mutex_,   \* holder of WebRTCServer::sessions_mutex_, or "free"
    rtc_stats_mutex_,  \* holder of WebRTCServer::stats_mutex_, or "free"
    tpc,               \* position of every thread
    tmsg,              \* the control message a thread is handling
    tlocal,            \* the SessionConfig copy on a thread's stack
    config_,           \* WebRTCSession::config_ of the session
    in_map,            \* whether the session is in sessions_
    applied,           \* control messages whose update_config has returned
    calls              \* number of API calls made so far

thvars == <<sessions_mutex_, rtc_stats_mutex_, tpc, tmsg, tlocal, config_,
            in_map, applied, calls>>

\* ------------------------------------------------------------------------
\* Part VI : StreamingServer::stats_ and its readers
\* ------------------------------------------------------------------------
VARIABLES
    stats_mutex_,   \* holder of StreamingServer::stats_mutex_, or "free"
    stats_,         \* StreamingServer::stats_
    spc,            \* position of the render thread in its statistics updates
    sreg,           \* the value the render thread has loaded for an increment
    gpc,            \* position of the thread that calls get_stats()
    snapshot        \* the Stats copy get_stats() is filling

stvars == <<stats_mutex_, stats_, spc, sreg, gpc, snapshot>>

\* ------------------------------------------------------------------------
\* Part VII : StreamingServer::stop() against the wait of one send_loop
\* ------------------------------------------------------------------------
VARIABLES
    cv_running,    \* StreamingServer::running_
    cv_connected,  \* ClientConnection::connected_
    cv_socket,     \* ClientConnection::socket_fd_ >= 0
    cv_queue,      \* number of frames in ClientConnection::send_queue_
    cv_mutex,      \* holder of ClientConnection::queue_mutex_, or "free"
    cv_sender,     \* position of the send_loop thread
    cv_render,     \* position of the render thread
    cv_stop        \* position of the thread that calls stop()

cvvars == <<cv_running, cv_connected, cv_socket, cv_queue, cv_mutex,
            cv_sender, cv_render, cv_stop>>

auxvars == <<thvars, stvars, cvvars>>

vars == <<basevars, auxvars>>

Frames == 1..MaxFrames

\* values the uninitialised header.sequence may hold
StackGarbage == {0, 1}

\* sizeof(MessageHeader), sizeof(StreamConfig) and data.size() of an encoded
\* frame, in transfer units
HeaderSize == 2
ConfigSize == 2
DataSize(f) == 2

\* one send() of a payload: n bytes of the payload of frame f were accepted
Wr(k, f, n) == [kind |-> k, frame |-> f, bytes |-> n]

\* one send() of a MessageHeader: n bytes of it were accepted
Hdr(k, f, psize, n) ==
    [kind |-> k, frame |-> f, bytes |-> n, payload_size |-> psize,
     sequence |-> stack_sequence]

SeqToSet(s) == {s[i] : i \in 1..Len(s)}

InitTCP ==
    /\ running_ = FALSE
    /\ stoppc = "idle"
    /\ acceptpc = "unborn"
    /\ renderpc = "unborn"
    /\ pkts = 0
    /\ bcIdx = 0
    /\ published = 0
    /\ clients_mutex_ = "free"
    /\ clients_ = << >>
    /\ regAt = [c \in Conns |-> 0]
    /\ connected_ = [c \in Conns |-> FALSE]
    /\ socket_open = [c \in Conns |-> FALSE]
    /\ send_queue_ = [c \in Conns |-> << >>]
    /\ queue_mutex_ = [c \in Conns |-> "free"]
    /\ sendpc = [c \in Conns |-> "unborn"]
    /\ cur = [c \in Conns |-> 0]
    /\ wire = [c \in Conns |-> << >>]
    /\ hcpc = [c \in Conns |-> "unborn"]
    /\ stack_sequence = 0
    /\ is_running_ = TRUE

\* StreamingServer::start, called by a thread that is not inside stop():
\* returns at once when running_ is set, otherwise sets it and starts the
\* accept thread and the render thread
start ==
    /\ stoppc \in {"idle", "done"}
    /\ IF running_
       THEN UNCHANGED <<running_, acceptpc, renderpc, stack_sequence>>
       ELSE /\ running_' = TRUE
            /\ acceptpc' = "accept"
            /\ renderpc' = "tick"
            /\ stack_sequence' \in StackGarbage
    /\ UNCHANGED <<stoppc, pkts, bcIdx, published, clients_mutex_, clients_,
                   regAt, connected_, socket_open, send_queue_, queue_mutex_,
                   sendpc, cur, wire, hcpc>>
    /\ UNCHANGED <<is_running_, rtcvars, pacevars, clvars, auxvars>>

\* the start() call of main(), made once on the initialised server
Start ==
    /\ renderpc = "unborn"
    /\ start

\* ---- accept thread ------------------------------------------------------

\* accept_clients_loop, one iteration: accept_client() returns a descriptor,
\* the ClientConnection is constructed (connected_ = true, send thread
\* started), pushed to clients_ under clients_mutex_, and the detached
\* handle_client thread is started.  Connections are numbered in accept order.
AcceptClient(c) ==
    /\ acceptpc = "accept"
    /\ running_
    /\ is_running_
    /\ sendpc[c] = "unborn"
    /\ \A d \in Conns : d < c => sendpc[d] # "unborn"
    /\ clients_mutex_ = "free"
    /\ connected_' = [connected_ EXCEPT ![c] = TRUE]
    /\ socket_open' = [socket_open EXCEPT ![c] = TRUE]
    /\ sendpc' = [sendpc EXCEPT ![c] = "top"]
    /\ clients_' = Append(clients_, c)
    /\ regAt' = [regAt EXCEPT ![c] = published]
    /\ hcpc' = [hcpc EXCEPT ![c] = "header"]
    /\ UNCHANGED <<running_, stoppc, acceptpc, renderpc, pkts, bcIdx,
                   published, clients_mutex_, send_queue_, queue_mutex_, cur,
                   wire>>
    /\ UNCHANGED <<stack_sequence, is_running_, rtcvars, pacevars, clvars, auxvars>>

\* ---- detached handle_client thread -------------------------------------

\* send(client_fd, &header, ...): the result is ignored; nothing is written
\* when the descriptor has been closed meanwhile
HandleClientHeader(c) ==
    /\ hcpc[c] = "header"
    /\ wire' = [wire EXCEPT ![c] =
                  IF socket_open[c]
                  THEN Append(@, Hdr("CONFIG_HDR", 0, ConfigSize, HeaderSize))
                  ELSE @]
    /\ hcpc' = [hcpc EXCEPT ![c] = "payload"]
    /\ UNCHANGED <<running_, stoppc, acceptpc, renderpc, pkts, bcIdx,
                   published, clients_mutex_, clients_, regAt, connected_,
                   socket_open, send_queue_, queue_mutex_, sendpc, cur>>
    /\ UNCHANGED <<stack_sequence, is_running_, rtcvars, pacevars, clvars, auxvars>>

\* send(client_fd, &stream_config, ...): the result is ignored
HandleClientPayload(c) ==
    /\ hcpc[c] = "payload"
    /\ wire' = [wire EXCEPT ![c] =
                  IF socket_open[c]
                  THEN Append(@, Wr("CONFIG_PAYLOAD", 0, ConfigSize))
                  ELSE @]
    /\ hcpc' = [hcpc EXCEPT ![c] = "done"]
    /\ UNCHANGED <<running_, stoppc, acceptpc, renderpc, pkts, bcIdx,
                   published, clients_mutex_, clients_, regAt, connected_,
                   socket_open, send_queue_, queue_mutex_, sendpc, cur>>
    /\ UNCHANGED <<stack_sequence, is_running_, rtcvars, pacevars, clvars, auxvars>>

\* ---- render thread -------------------------------------------------------

\* render_loop: one iteration up to avcodec_send_frame; the encoder has
\* n packets for this tick
RenderTick ==
    /\ renderpc = "tick"
    /\ running_
    /\ \E n \in PacketsPerTick :
          /\ published + n <= MaxFrames
          /\ pkts' = n
          /\ renderpc' = IF n > 0 THEN "receive" ELSE "tick"
    /\ UNCHANGED <<running_, stoppc, acceptpc, bcIdx, published,
                   clients_mutex_, clients_, regAt, connected_, socket_open,
                   send_queue_, queue_mutex_, sendpc, cur, wire, hcpc>>
    /\ UNCHANGED <<stack_sequence, is_running_, rtcvars, pacevars, clvars, auxvars>>

\* render_loop: while (running_) is false
RenderLoopExit ==
    /\ renderpc = "tick"
    /\ ~running_
    /\ renderpc' = "stopped"
    /\ UNCHANGED <<running_, stoppc, acceptpc, pkts, bcIdx, published,
                   clients_mutex_, clients_, regAt, connected_, socket_open,
                   send_queue_, queue_mutex_, sendpc, cur, wire, hcpc>>
    /\ UNCHANGED <<stack_sequence, is_running_, rtcvars, pacevars, clvars, auxvars>>

\* mutation of RemoveDisconnected: nothing is erased
RemoveDisconnectedNone(cl) == cl

\* the remove_if / erase of broadcast_frame
RemoveDisconnected(cl) == SelectSeq(cl, LAMBDA c : connected_[c])

\* broadcast_frame: lock clients_mutex_ and erase the disconnected clients;
\* ~ClientConnection of an erased client closes its socket
BroadcastBegin ==
    /\ renderpc = "receive"
    /\ clients_mutex_ = "free"
    /\ clients_mutex_' = "render"
    /\ published' = published + 1
    /\ clients_' = RemoveDisconnected(clients_)
    /\ socket_open' = [c \in Conns |->
                         IF c \in SeqToSet(clients_) /\ ~connected_[c]
                         THEN FALSE ELSE socket_open[c]]
    /\ bcIdx' = 1
    /\ renderpc' = "broadcast"
    /\ UNCHANGED <<running_, stoppc, acceptpc, pkts, regAt, connected_,
                   send_queue_, queue_mutex_, sendpc, cur, wire, hcpc>>
    /\ UNCHANGED <<stack_sequence, is_running_, rtcvars, pacevars, clvars, auxvars>>

\* mutation of PushFrame: the frame is put in front of the queue
PushFrameFront(q, f) == <<f>> \o q

\* mutation of PushFrame: the frame is discarded while the queue is not empty
PushFrameIfEmpty(q, f) == IF q = << >> THEN <<f>> ELSE q

\* send_queue_.push(data)
PushFrame(q, f) == Append(q, f)

\* ClientConnection::send_frame, called from broadcast_frame's loop
send_frame(c, f) ==
    IF ~connected_[c]
    THEN UNCHANGED send_queue_
    ELSE /\ queue_mutex_[c] = "free"
         /\ send_queue_' = [send_queue_ EXCEPT ![c] = PushFrame(@, f)]

\* broadcast_frame: one iteration of for (auto& client : clients_)
BroadcastSend ==
    /\ renderpc = "broadcast"
    /\ bcIdx <= Len(clients_)
    /\ send_frame(clients_[bcIdx], published)
    /\ bcIdx' = bcIdx + 1
    /\ UNCHANGED <<running_, stoppc, acceptpc, renderpc, pkts, published,
                   clients_mutex_, clients_, regAt, connected_, socket_open,
                   queue_mutex_, sendpc, cur, wire, hcpc>>
    /\ UNCHANGED <<stack_sequence, is_running_, rtcvars, pacevars, clvars, auxvars>>

\* mutation of RemainingPackets: the packets after the first are discarded
RemainingPacketsNone(p) == 0

\* av_packet_unref(pkt): the packets the encoder still holds for this tick
RemainingPackets(p) == p - 1

\* broadcast_frame returns (clients_mutex_ released); back in the
\* avcodec_receive_packet loop of encode_and_send_frame
BroadcastEnd ==
    /\ renderpc = "broadcast"
    /\ bcIdx > Len(clients_)
    /\ clients_mutex_' = "free"
    /\ pkts' = RemainingPackets(pkts)
    /\ renderpc' = IF RemainingPackets(pkts) > 0 THEN "receive" ELSE "tick"
    /\ bcIdx' = 0
    /\ UNCHANGED <<running_, stoppc, acceptpc, published, clients_, regAt,
                   connected_, socket_open, send_queue_, queue_mutex_, sendpc,
                   cur, wire, hcpc>>
    /\ UNCHANGED <<stack_sequence, is_running_, rtcvars, pacevars, clvars, auxvars>>

\* ---- ClientConnection::send_loop ----------------------------------------

\* while (connected_) { std::unique_lock lock(queue_mutex_);
\*     queue_cv_.wait(lock, pred);
\* The thread owns queue_mutex_ again once the predicate
\* (!send_queue_.empty() || !connected_) holds; while it does not hold the
\* thread sleeps in wait() with the mutex released.
SendLoopTop(c) ==
    /\ sendpc[c] = "top"
    /\ IF connected_[c]
       THEN /\ send_queue_[c] # << >>
            /\ queue_mutex_[c] = "free"
            /\ queue_mutex_' = [queue_mutex_ EXCEPT ![c] = "sender"]
            /\ sendpc' = [sendpc EXCEPT ![c] = "locked"]
       ELSE /\ sendpc' = [sendpc EXCEPT ![c] = "exited"]
            /\ UNCHANGED queue_mutex_
    /\ UNCHANGED <<running_, stoppc, acceptpc, renderpc, pkts, bcIdx,
                   published, clients_mutex_, clients_, regAt, connected_,
                   socket_open, send_queue_, cur, wire, hcpc>>
    /\ UNCHANGED <<stack_sequence, is_running_, rtcvars, pacevars, clvars, auxvars>>

\* if (!connected_) break;
SendLoopBreak(c) ==
    /\ sendpc[c] = "locked"
    /\ ~connected_[c]
    /\ queue_mutex_' = [queue_mutex_ EXCEPT ![c] = "free"]
    /\ sendpc' = [sendpc EXCEPT ![c] = "exited"]
    /\ UNCHANGED <<running_, stoppc, acceptpc, renderpc, pkts, bcIdx,
                   published, clients_mutex_, clients_, regAt, connected_,
                   socket_open, send_queue_, cur, wire, hcpc>>
    /\ UNCHANGED <<stack_sequence, is_running_, rtcvars, pacevars, clvars, auxvars>>

\* data = send_queue_.front(); send_queue_.pop(); lock.unlock();
SendLoopPop(c) ==
    /\ sendpc[c] = "locked"
    /\ connected_[c]
    /\ send_queue_[c] # << >>
    /\ cur' = [cur EXCEPT ![c] = Head(send_queue_[c])]
    /\ send_queue_' = [send_queue_ EXCEPT ![c] = Tail(@)]
    /\ queue_mutex_' = [queue_mutex_ EXCEPT ![c] = "free"]
    /\ sendpc' = [sendpc EXCEPT ![c] = "header"]
    /\ UNCHANGED <<running_, stoppc, acceptpc, renderpc, pkts, bcIdx,
                   published, clients_mutex_, clients_, regAt, connected_,
                   socket_open, wire, hcpc>>
    /\ UNCHANGED <<stack_sequence, is_running_, rtcvars, pacevars, clvars, auxvars>>

\* mutation of SetDisconnected: the flag is left as it is
SetDisconnectedKeep(conn, c) == conn

\* mutation of SetDisconnected: the flag is shared by all connections
SetDisconnectedAll(conn, c) == [d \in DOMAIN conn |-> FALSE]

\* connected_ = false after a failed send()
SetDisconnected(conn, c) == [conn EXCEPT ![c] = FALSE]

\* send(socket_fd_, &header, sizeof(header), MSG_NOSIGNAL)
SendHeader(c) ==
    /\ sendpc[c] = "header"
    /\ \E ok \in BOOLEAN :
          /\ ok => socket_open[c]
          /\ IF ok
             THEN /\ wire' = [wire EXCEPT ![c] =
                      Append(@, Hdr("FRAME_HDR", cur[c], DataSize(cur[c]), HeaderSize))]
                  /\ sendpc' = [sendpc EXCEPT ![c] = "payload"]
                  /\ UNCHANGED <<connected_, cur>>
             ELSE /\ connected_' = SetDisconnected(connected_, c)
                  /\ sendpc' = [sendpc EXCEPT ![c] = "exited"]
                  /\ cur' = [cur EXCEPT ![c] = 0]
                  /\ UNCHANGED wire
    /\ UNCHANGED <<running_, stoppc, acceptpc, renderpc, pkts, bcIdx,
                   published, clients_mutex_, clients_, regAt, socket_open,
                   send_queue_, queue_mutex_, hcpc>>
    /\ UNCHANGED <<stack_sequence, is_running_, rtcvars, pacevars, clvars, auxvars>>

\* send(socket_fd_, data.data(), data.size(), MSG_NOSIGNAL)
SendPayload(c) ==
    /\ sendpc[c] = "payload"
    /\ \E ok \in BOOLEAN :
          /\ ok => socket_open[c]
          /\ IF ok
             THEN /\ wire' = [wire EXCEPT ![c] =
                      Append(@, Wr("FRAME_PAYLOAD", cur[c], DataSize(cur[c])))]
                  /\ sendpc' = [sendpc EXCEPT ![c] = "top"]
                  /\ cur' = [cur EXCEPT ![c] = 0]
                  /\ UNCHANGED connected_
             ELSE /\ connected_' = SetDisconnected(connected_, c)
                  /\ sendpc' = [sendpc EXCEPT ![c] = "exited"]
                  /\ cur' = [cur EXCEPT ![c] = 0]
                  /\ UNCHANGED wire
    /\ UNCHANGED <<running_, stoppc, acceptpc, renderpc, pkts, bcIdx,
                   published, clients_mutex_, clients_, regAt, socket_open,
                   send_queue_, queue_mutex_, hcpc>>
    /\ UNCHANGED <<stack_sequence, is_running_, rtcvars, pacevars, clvars, auxvars>>

\* send() of the header on the non-blocking socket accepts only n bytes, with
\* 0 < n < sizeof(header): the result is not negative, send_loop goes on
SendHeaderShort(c) ==
    /\ sendpc[c] = "header"
    /\ socket_open[c]
    /\ \E n \in 1..(HeaderSize - 1) :
          wire' = [wire EXCEPT ![c] =
                     Append(@, Hdr("FRAME_HDR", cur[c], DataSize(cur[c]), n))]
    /\ sendpc' = [sendpc EXCEPT ![c] = "payload"]
    /\ UNCHANGED <<running_, stoppc, acceptpc, renderpc, pkts, bcIdx,
                   published, clients_mutex_, clients_, regAt, connected_,
                   socket_open, send_queue_, queue_mutex_, cur, hcpc>>
    /\ UNCHANGED <<stack_sequence, is_running_, rtcvars, pacevars, clvars, auxvars>>

\* send() of the frame data on the non-blocking socket accepts only n bytes,
\* with 0 < n < data.size(): the result is not negative, send_loop goes on
SendPayloadShort(c) ==
    /\ sendpc[c] = "payload"
    /\ socket_open[c]
    /\ \E n \in 1..(DataSize(cur[c]) - 1) :
          wire' = [wire EXCEPT ![c] = Append(@, Wr("FRAME_PAYLOAD", cur[c], n))]
    /\ sendpc' = [sendpc EXCEPT ![c] = "top"]
    /\ cur' = [cur EXCEPT ![c] = 0]
    /\ UNCHANGED <<running_, stoppc, acceptpc, renderpc, pkts, bcIdx,
                   published, clients_mutex_, clients_, regAt, connected_,
                   socket_open, send_queue_, queue_mutex_, hcpc>>
    /\ UNCHANGED <<stack_sequence, is_running_, rtcvars, pacevars, clvars, auxvars>>

\* ---- StreamingServer::stop ----------------------------------------------

\* running_ = false; network_server_->stop(): the listening socket is closed,
\* accept_client() returns -1 and while (running_) ends accept_clients_loop
StopBegin ==
    /\ running_
    /\ stoppc \in {"idle", "done"}
    /\ running_' = FALSE
    /\ is_running_' = FALSE
    /\ acceptpc' = "stopped"
    /\ stoppc' = "join"
    /\ UNCHANGED <<renderpc, pkts, bcIdx, published, clients_mutex_,
                   clients_, regAt, connected_, socket_open, send_queue_,
                   queue_mutex_, sendpc, cur, wire, hcpc>>
    /\ UNCHANGED <<stack_sequence, rtcvars, pacevars, clvars, auxvars>>

\* both threads joined; under clients_mutex_ every client is disconnect()ed
StopDisconnect ==
    /\ stoppc = "join"
    /\ acceptpc = "stopped"
    /\ renderpc = "stopped"
    /\ clients_mutex_ = "free"
    /\ clients_mutex_' = "stop"
    /\ connected_' = [c \in Conns |->
                        IF c \in SeqToSet(clients_) THEN FALSE ELSE connected_[c]]
    /\ socket_open' = [c \in Conns |->
                         IF c \in SeqToSet(clients_) THEN FALSE ELSE socket_open[c]]
    /\ stoppc' = "clear"
    /\ UNCHANGED <<running_, acceptpc, renderpc, pkts, bcIdx, published,
                   clients_, regAt, send_queue_, queue_mutex_, sendpc, cur,
                   wire, hcpc>>
    /\ UNCHANGED <<stack_sequence, is_running_, rtcvars, pacevars, clvars, auxvars>>

\* clients_.clear(): every ~ClientConnection joins its send thread
StopClear ==
    /\ stoppc = "clear"
    /\ \A c \in SeqToSet(clients_) : sendpc[c] = "exited"
    /\ clients_' = << >>
    /\ clients_mutex_' = "free"
    /\ stoppc' = "done"
    /\ UNCHANGED <<running_, acceptpc, renderpc, pkts, bcIdx, published,
                   regAt, connected_, socket_open, send_queue_, queue_mutex_,
                   sendpc, cur, wire, hcpc>>
    /\ UNCHANGED <<stack_sequence, is_running_, rtcvars, pacevars, clvars, auxvars>>

\* ------------------------------------------------------------------------
\* Part II : WebRTCServer / WebRTCSession
\* ------------------------------------------------------------------------

\* SessionConfig with its default member initialisers
DefaultConfig ==
    [orientation |-> "XZ", animate |-> TRUE, animation_speed |-> 1,
     animation_duration |-> AnimTicks, paused |-> FALSE, current_slice |-> -1,
     quality |-> "auto"]

\* configurations passed to create_session: animated, or pinned to slice 0
CreateConfigs == {DefaultConfig, [DefaultConfig EXCEPT !.current_slice = 0]}

\* the control messages offered: a type with its ControlMessage::parameters
\* (a known and an unknown orientation, a message without its parameter,
\* two speeds, both pause values, and the two types the switch does not
\* handle)
TypedParams ==
    {<<"SLICE_ORIENTATION", "orientation" :> "YZ">>,
     <<"SLICE_ORIENTATION", "orientation" :> "bogus">>,
     <<"SLICE_ORIENTATION", << >> >>,
     <<"ANIMATION_SPEED", "speed" :> "1">>,
     <<"ANIMATION_SPEED", "speed" :> "2">>,
     <<"PAUSE_RESUME", "paused" :> "true">>,
     <<"PAUSE_RESUME", "paused" :> "false">>,
     <<"RESTART_ANIMATION", << >> >>,
     <<"QUALITY_LEVEL", "quality" :> "auto">>,
     <<"ANIMATION_DURATION", "duration" :> "2">>,
     <<"FRAME_RATE", "fps" :> "30">>}

\* std::stof on the speed strings offered
StoF(str) == IF str = "2" THEN 2 ELSE 1

InitRTC ==
    /\ rtc_running = FALSE
    /\ sessions_ = << >>
    /\ animation_start_time_ = 0
    /\ now = 0
    /\ ret = "void"
    /\ pc_open = {}
    /\ media_alive = {}

\* WebRTCServer::start
RtcStart ==
    /\ IF rtc_running
       THEN UNCHANGED <<rtc_running, animation_start_time_>>
       ELSE /\ rtc_running' = TRUE
            /\ animation_start_time_' = now
    /\ ret' = "true"
    /\ UNCHANGED <<sessions_, now, pc_open, media_alive>>
    /\ UNCHANGED <<tcpvars, pacevars, clvars, auxvars>>

\* a WebRTCSession after its constructor and a successful initialize()
NewSession(cfg) ==
    [config |-> cfg, active_ |-> TRUE, clients_ |-> << >>,
     peer_connections_ |-> {}, frames_sent |-> 0]

\* WebRTCServer::create_session; initok is the result of
\* WebRTCSession::initialize
create_session(sid, cfg, initok) ==
    /\ IF sid \in DOMAIN sessions_
       THEN /\ ret' = sid
            /\ UNCHANGED <<sessions_, media_alive>>
       ELSE IF ~initok
       THEN /\ ret' = ""
            /\ UNCHANGED <<sessions_, media_alive>>
       ELSE /\ sessions_' = sessions_ @@ (sid :> NewSession(cfg))
            /\ media_alive' = media_alive \cup {sid}
            /\ ret' = sid
    /\ UNCHANGED <<rtc_running, animation_start_time_, now, pc_open>>
    /\ UNCHANGED <<tcpvars, pacevars, clvars, auxvars>>

\* mutation of add_client: the peer connection is stored before AddStream
\* is tried, and the client is appended again when it is already listed
add_client_early_store(session, cid, pcok, streamok) ==
    IF ~pcok THEN session
    ELSE IF ~streamok
    THEN [session EXCEPT !.peer_connections_ = @ \cup {cid}]
    ELSE [session EXCEPT !.peer_connections_ = @ \cup {cid},
                         !.clients_ = Append(@, cid)]

\* WebRTCSession::add_client; pcok is the result of CreatePeerConnection,
\* streamok the result of AddStream
add_client(session, cid, pcok, streamok) ==
    IF cid \in SeqToSet(session.clients_) THEN session
    ELSE IF ~pcok \/ ~streamok THEN session
    ELSE [session EXCEPT !.peer_connections_ = @ \cup {cid},
                         !.clients_ = Append(@, cid)]

\* the value add_client returns
add_client_result(session, cid, pcok, streamok) ==
    cid \in SeqToSet(session.clients_) \/ (pcok /\ streamok)

\* WebRTCServer::join_session
join_session(sid, cid, pcok, streamok) ==
    /\ IF sid \notin DOMAIN sessions_
       THEN /\ ret' = "false"
            /\ UNCHANGED <<sessions_, pc_open>>
       ELSE /\ sessions_' = [sessions_ EXCEPT
                               ![sid] = add_client(@, cid, pcok, streamok)]
            /\ pc_open' = pc_open \cup
                  {<<sid, c>> : c \in sessions_'[sid].peer_connections_}
            /\ ret' = IF add_client_result(sessions_[sid], cid, pcok, streamok)
                      THEN "true" ELSE "false"
    /\ UNCHANGED <<rtc_running, animation_start_time_, now, media_alive>>
    /\ UNCHANGED <<tcpvars, pacevars, clvars, auxvars>>

\* mutation of remove_client: when the client is not in the list, the first
\* client of the list is removed instead
remove_client_or_first(session, cid) ==
    LET victim == IF cid \in SeqToSet(session.clients_) \/ session.clients_ = << >>
                  THEN cid ELSE Head(session.clients_)
    IN  [session EXCEPT !.clients_ = SelectSeq(@, LAMBDA x : x # victim),
                        !.peer_connections_ = @ \ {victim}]

\* WebRTCSession::remove_client with cleanup_peer_connection
remove_client(session, cid) ==
    [session EXCEPT !.clients_ = SelectSeq(@, LAMBDA x : x # cid),
                    !.peer_connections_ = @ \ {cid}]

\* mutation of EraseSession: the empty session stays in the map
EraseSessionNever(m, sid) == m

\* sessions_.erase(it)
EraseSession(m, sid) == [x \in DOMAIN m \ {sid} |-> m[x]]

\* the sessions_ map leave_session(sid, cid) leaves behind when called on map m
LeaveRegistry(m, sid, cid) ==
    IF sid \notin DOMAIN m
    THEN m
    ELSE LET after == remove_client(m[sid], cid)
         IN  IF after.clients_ = << >>
             THEN EraseSession(m, sid)
             ELSE [m EXCEPT ![sid] = after]

\* WebRTCServer::leave_session; cleanup_peer_connection Close()s the peer
\* connection of the client, and erasing the session runs ~WebRTCSession,
\* whose close() Close()s the remaining peer connections and drops the
\* media stream, track and source
leave_session(sid, cid) ==
    /\ sessions_' = LeaveRegistry(sessions_, sid, cid)
    /\ IF sid \notin DOMAIN sessions_
       THEN UNCHANGED <<pc_open, media_alive>>
       ELSE LET after == remove_client(sessions_[sid], cid)
            IN  IF after.clients_ = << >>
                THEN /\ pc_open' = pc_open \ {<<sid, c>> :
                            c \in sessions_[sid].peer_connections_ \cup {cid}}
                     /\ media_alive' = media_alive \ {sid}
                ELSE /\ pc_open' = pc_open \ {<<sid, c>> :
                            c \in sessions_[sid].peer_connections_
                                     \ after.peer_connections_}
                     /\ UNCHANGED media_alive
    /\ ret' = "void"
    /\ UNCHANGED <<rtc_running, animation_start_time_, now>>
    /\ UNCHANGED <<tcpvars, pacevars, clvars, auxvars>>

\* the switch of handle_control_message: the configuration to store, or the
\* old one when config_changed stays false
ApplyControl(config, m) ==
    IF m.type = "SLICE_ORIENTATION" /\ "orientation" \in DOMAIN m.parameters
    THEN [config EXCEPT !.orientation = m.parameters["orientation"]]
    ELSE IF m.type = "ANIMATION_SPEED" /\ "speed" \in DOMAIN m.parameters
    THEN [config EXCEPT !.animation_speed = StoF(m.parameters["speed"])]
    ELSE IF m.type = "PAUSE_RESUME" /\ "paused" \in DOMAIN m.parameters
    THEN [config EXCEPT !.paused = (m.parameters["paused"] = "true")]
    ELSE IF m.type = "RESTART_ANIMATION"
    THEN [config EXCEPT !.current_slice = -1]
    ELSE IF m.type = "QUALITY_LEVEL" /\ "quality" \in DOMAIN m.parameters
    THEN [config EXCEPT !.quality = m.parameters["quality"]]
    ELSE config

\* mutation of RestartEpoch: the animation clock epoch is left alone
RestartEpochKeep(epoch, t) == epoch

\* case RESTART_ANIMATION: animation_start_time_ = steady_clock::now()
RestartEpoch(epoch, t) == t

\* WebRTCServer::handle_control_message
handle_control_message(m) ==
    /\ IF m.session_id \notin DOMAIN sessions_
       THEN UNCHANGED <<sessions_, animation_start_time_>>
       ELSE /\ sessions_' = [sessions_ EXCEPT
                  ![m.session_id].config = ApplyControl(@, m)]
            /\ animation_start_time_' =
                  IF m.type = "RESTART_ANIMATION"
                  THEN RestartEpoch(animation_start_time_, now)
                  ELSE animation_start_time_
    /\ ret' = "void"
    /\ UNCHANGED <<rtc_running, now, pc_open, media_alive>>
    /\ UNCHANGED <<tcpvars, pacevars, clvars, auxvars>>

\* render_vds_frame: orientation to slice axis
SliceAxis(orientation) ==
    IF orientation = "XY" THEN 2
    ELSE IF orientation = "XZ" THEN 1
    ELSE IF orientation = "YZ" THEN 0
    ELSE 2

\* vds_manager_->get_dimensions()[axis]
Dimension(axis) == NumSlices

Clamp(x, lo, hi) == IF x < lo THEN lo ELSE IF x > hi THEN hi ELSE x

\* render_vds_frame: the slice index handed to the VDS manager
SliceIndex(config, animation_time) ==
    IF config.animate /\ ~config.paused /\ config.current_slice < 0
    THEN LET dim == Dimension(SliceAxis(config.orientation))
             d == config.animation_duration
         IN  Clamp(((animation_time % d) * dim) \div d, 0, dim - 1)
    ELSE config.current_slice

\* render_session: animation time of a session at the current clock
AnimationTime(config) == (now - animation_start_time_) * config.animation_speed

\* the VDS manager has pixels only for a slice index inside the volume
RendererHasData(config, index) ==
    index >= 0 /\ index < Dimension(SliceAxis(config.orientation))

\* render_session for one session; encoded tells whether renderer and
\* encoder both returned non-empty output
render_session(session, encoded) ==
    IF /\ session.active_
       /\ RendererHasData(session.config,
                          SliceIndex(session.config, AnimationTime(session.config)))
       /\ encoded
    THEN [session EXCEPT !.frames_sent = @ + 1]
    ELSE session

\* WebRTCServer::render_loop, one iteration: every session is rendered under
\* sessions_mutex_, then the loop sleeps until the next frame time
RtcRenderTick ==
    /\ rtc_running
    /\ now < MaxTime
    /\ \E enc \in SUBSET DOMAIN sessions_ :
          sessions_' = [x \in DOMAIN sessions_ |->
                          render_session(sessions_[x], x \in enc)]
    /\ now' = now + 1
    /\ UNCHANGED <<rtc_running, animation_start_time_, ret, pc_open,
                   media_alive>>
    /\ UNCHANGED <<tcpvars, pacevars, clvars, auxvars>>

\* the control messages offered for the sessions in S
ControlMessages(S) ==
    {[type |-> tp[1], session_id |-> sid, parameters |-> tp[2]] :
        sid \in S, tp \in TypedParams}

\* ------------------------------------------------------------------------
\* Part III : frame pacing
\* ------------------------------------------------------------------------

\* the three render loops of the repository
PaceLoops == {"render_loop", "enhanced_render_loop", "webrtc_render_loop"}

\* durations of one tick's render and encode work
Work == 0..MaxWork

Max(a, b) == IF a >= b THEN a ELSE b

InitPace ==
    /\ pace_loop = "none"
    /\ clock = 0
    /\ next_frame_time_ = 0
    /\ frames_dropped = 0
    /\ frame_start = 0

\* the thread of one of the loops starts: next_frame_time_ = now()
PaceStart(loop) ==
    /\ pace_loop = "none"
    /\ pace_loop' = loop
    /\ next_frame_time_' = clock
    /\ UNCHANGED <<clock, frames_dropped, frame_start>>
    /\ UNCHANGED <<tcpvars, rtcvars, clvars, auxvars>>

\* StreamingServer::render_loop, one iteration whose work takes w:
\* next_frame_time_ += frame_duration_; sleep_until(next_frame_time_)
render_loop_pace(w) ==
    /\ frame_start' = clock
    /\ next_frame_time_' = next_frame_time_ + FrameDuration
    /\ clock' = Max(clock + w, next_frame_time_ + FrameDuration)
    /\ UNCHANGED frames_dropped

\* HardwareStreamingServer::enhanced_render_loop, one iteration whose work
\* takes w: sleep_until(next_frame_time_) at the top, then the work, then
\* the schedule is advanced and reset when more than BehindLimit frames behind
enhanced_render_loop_pace(w) ==
    LET begin == Max(clock, next_frame_time_)
        finish == begin + w
        sched == next_frame_time_ + FrameDuration
        frames_behind == (finish - sched) \div FrameDuration
    IN  /\ frame_start' = begin
        /\ clock' = finish
        /\ IF sched < finish /\ frames_behind > BehindLimit
           THEN /\ next_frame_time_' = finish
                /\ frames_dropped' = frames_dropped + frames_behind
           ELSE /\ next_frame_time_' = sched
                /\ UNCHANGED frames_dropped

\* WebRTCServer::render_loop, one iteration whose work takes w: sleep until
\* the next frame time when it lies ahead, else next_frame_time = now
webrtc_render_loop_pace(w) ==
    LET finish == clock + w
        sched == next_frame_time_ + FrameDuration
    IN  /\ frame_start' = clock
        /\ IF sched > finish
           THEN /\ clock' = sched
                /\ next_frame_time_' = sched
           ELSE /\ clock' = finish
                /\ next_frame_time_' = finish
        /\ UNCHANGED frames_dropped

\* one iteration of the running loop
PaceTick(w) ==
    /\ pace_loop # "none"
    /\ Max(clock, next_frame_time_) + w <= MaxClock
    /\ CASE pace_loop = "render_loop" -> render_loop_pace(w)
         [] pace_loop = "enhanced_render_loop" -> enhanced_render_loop_pace(w)
         [] pace_loop = "webrtc_render_loop" -> webrtc_render_loop_pace(w)
    /\ UNCHANGED pace_loop
    /\ UNCHANGED <<tcpvars, rtcvars, clvars, auxvars>>

\* ------------------------------------------------------------------------
\* Part IV : StreamingClient
\* ------------------------------------------------------------------------

\* MessageHeader::magic: 0x42535452 and any other value
MagicValues == {"BSTR", "other"}

\* MessageHeader::type: the two types the client looks for and any other
TypeValues == {"CONFIG", "FRAME", "PING"}

\* the messages a peer can write
Messages ==
    [magic : MagicValues, type : TypeValues, payload_size : 0..MaxPayload]

\* sizeof(StreamConfig), in blocks of sizeof(MessageHeader)
ConfigBlocks == 1

RECURSIVE Blocks(_)
\* n blocks of payload data
Blocks(n) == IF n = 0 THEN <<>> ELSE <<[data |-> TRUE]>> \o Blocks(n - 1)

\* the byte stream of a message: its header, then payload_size of payload
OnTheWire(m) == <<m>> \o Blocks(m.payload_size)

\* header.magic of the block at the head of the stream read as a header;
\* payload data read as a header does not carry the magic value
HasMagic(b) == "magic" \in DOMAIN b /\ b.magic = "BSTR"

\* header.type of such a block
TypeOf(b) == IF "type" \in DOMAIN b THEN b.type ELSE "PING"

\* header.payload_size of such a block
SizeOf(b) == IF "payload_size" \in DOMAIN b THEN b.payload_size ELSE 0

\* the first n blocks removed
RECURSIVE Drop(_, _)
Drop(q, n) == IF n = 0 THEN q ELSE Drop(Tail(q), n - 1)

InitClient ==
    /\ cl_pc = "init"
    /\ cl_main = "connect"
    /\ cl_connected_ = FALSE
    /\ cl_socket_open = FALSE
    /\ cl_rx = <<>>
    /\ cl_sent = 0
    /\ cl_size = 0
    /\ cl_errors = 0
    /\ frames_received = 0

\* the peer writes one message to the connection
ServerWrites(m) ==
    /\ cl_pc \notin {"init", "failed"}
    /\ cl_sent < MaxMsgs
    /\ cl_sent' = cl_sent + 1
    /\ cl_rx' = cl_rx \o OnTheWire(m)
    /\ UNCHANGED <<cl_pc, cl_main, cl_connected_, cl_socket_open, cl_size,
                   cl_errors, frames_received>>
    /\ UNCHANGED <<tcpvars, rtcvars, pacevars, auxvars>>

\* StreamingClient::disconnect()
disconnect ==
    /\ cl_connected_' = FALSE
    /\ cl_socket_open' = FALSE

\* connect_to_server up to connected_ = true: socket(), connect(), or the
\* failure of one of them
connect_to_server(ok) ==
    /\ cl_pc = "init"
    /\ IF ok
       THEN /\ cl_socket_open' = TRUE
            /\ cl_connected_' = TRUE
            /\ cl_pc' = "config_header"
       ELSE /\ cl_pc' = "failed"
            /\ UNCHANGED <<cl_socket_open, cl_connected_>>
    /\ UNCHANGED <<cl_main, cl_rx, cl_sent, cl_size, cl_errors, frames_received>>
    /\ UNCHANGED <<tcpvars, rtcvars, pacevars, auxvars>>

\* connect_to_server: the config header has arrived and is validated
connect_to_server_header ==
    /\ cl_pc = "config_header"
    /\ cl_rx # <<>>
    /\ cl_rx' = Tail(cl_rx)
    /\ IF ~HasMagic(Head(cl_rx)) \/ TypeOf(Head(cl_rx)) # "CONFIG"
       THEN /\ cl_errors' = cl_errors + 1
            /\ disconnect
            /\ cl_pc' = "failed"
       ELSE /\ cl_pc' = "config_payload"
            /\ UNCHANGED <<cl_errors, cl_connected_, cl_socket_open>>
    /\ UNCHANGED <<cl_main, cl_sent, cl_size, frames_received>>
    /\ UNCHANGED <<tcpvars, rtcvars, pacevars, auxvars>>

\* connect_to_server: sizeof(StreamConfig) bytes have arrived, return true
connect_to_server_config ==
    /\ cl_pc = "config_payload"
    /\ Len(cl_rx) >= ConfigBlocks
    /\ cl_rx' = Drop(cl_rx, ConfigBlocks)
    /\ cl_pc' = "ready"
    /\ UNCHANGED <<cl_main, cl_connected_, cl_socket_open, cl_sent, cl_size,
                   cl_errors, frames_received>>
    /\ UNCHANGED <<tcpvars, rtcvars, pacevars, auxvars>>

\* connect_to_server: recv() returns short (timeout, peer closed); the
\* failure is logged as a receive failure, disconnect(), return false
connect_to_server_recv_fails ==
    /\ \/ cl_pc = "config_header" /\ cl_rx = <<>>
       \/ cl_pc = "config_payload" /\ Len(cl_rx) < ConfigBlocks
    /\ cl_rx' = <<>>
    /\ disconnect
    /\ cl_pc' = "failed"
    /\ UNCHANGED <<cl_main, cl_sent, cl_size, cl_errors, frames_received>>
    /\ UNCHANGED <<tcpvars, rtcvars, pacevars, auxvars>>

\* StreamingClient::start_receiving(): the receive thread is created
start_receiving ==
    /\ cl_pc = "ready"
    /\ cl_main = "connect"
    /\ cl_main' = "sleep"
    /\ cl_pc' = IF cl_connected_ THEN "while" ELSE "ready"
    /\ UNCHANGED <<cl_connected_, cl_socket_open, cl_rx, cl_sent, cl_size,
                   cl_errors, frames_received>>
    /\ UNCHANGED <<tcpvars, rtcvars, pacevars, auxvars>>

\* receive_loop: while (connected_)
receive_loop_while ==
    /\ cl_pc = "while"
    /\ cl_pc' = IF cl_connected_ THEN "recv_header" ELSE "ended"
    /\ UNCHANGED <<cl_main, cl_connected_, cl_socket_open, cl_rx, cl_sent,
                   cl_size, cl_errors, frames_received>>
    /\ UNCHANGED <<tcpvars, rtcvars, pacevars, auxvars>>

\* receive_loop: a header has arrived and is validated
receive_loop_header ==
    /\ cl_pc = "recv_header"
    /\ cl_rx # <<>>
    /\ cl_rx' = Tail(cl_rx)
    /\ IF ~HasMagic(Head(cl_rx))
       THEN /\ cl_errors' = cl_errors + 1
            /\ cl_pc' = "ended"
            /\ UNCHANGED cl_size
       ELSE /\ UNCHANGED cl_errors
            /\ IF TypeOf(Head(cl_rx)) # "FRAME"
               THEN /\ cl_pc' = "while"
                    /\ UNCHANGED cl_size
               ELSE /\ cl_pc' = "recv_payload"
                    /\ cl_size' = SizeOf(Head(cl_rx))
    /\ UNCHANGED <<cl_main, cl_connected_, cl_socket_open, cl_sent,
                   frames_received>>
    /\ UNCHANGED <<tcpvars, rtcvars, pacevars, auxvars>>

\* receive_loop: the frame's payload_size bytes have arrived
receive_loop_payload ==
    /\ cl_pc = "recv_payload"
    /\ Len(cl_rx) >= cl_size
    /\ cl_rx' = Drop(cl_rx, cl_size)
    /\ frames_received' = frames_received + 1
    /\ cl_pc' = "while"
    /\ UNCHANGED <<cl_main, cl_connected_, cl_socket_open, cl_sent, cl_size,
                   cl_errors>>
    /\ UNCHANGED <<tcpvars, rtcvars, pacevars, auxvars>>

\* receive_loop: recv() returns short (SO_RCVTIMEO, peer closed): break
receive_loop_recv_fails ==
    /\ \/ cl_pc = "recv_header" /\ cl_rx = <<>>
       \/ cl_pc = "recv_payload" /\ Len(cl_rx) < cl_size
    /\ cl_rx' = <<>>
    /\ cl_pc' = "ended"
    /\ UNCHANGED <<cl_main, cl_connected_, cl_socket_open, cl_sent, cl_size,
                   cl_errors, frames_received>>
    /\ UNCHANGED <<tcpvars, rtcvars, pacevars, auxvars>>

\* main(): client.stop() after the sleep: connected_ = false, then join
client_stop ==
    /\ cl_main = "sleep"
    /\ cl_main' = "join"
    /\ cl_connected_' = FALSE
    /\ UNCHANGED <<cl_pc, cl_socket_open, cl_rx, cl_sent, cl_size, cl_errors,
                   frames_received>>
    /\ UNCHANGED <<tcpvars, rtcvars, pacevars, auxvars>>

\* main(): the receive thread is joined, client.disconnect()
client_disconnect ==
    /\ cl_main = "join"
    /\ cl_pc \in {"ended", "ready"}
    /\ cl_main' = "done"
    /\ disconnect
    /\ UNCHANGED <<cl_pc, cl_rx, cl_sent, cl_size, cl_errors, frames_received>>
    /\ UNCHANGED <<tcpvars, rtcvars, pacevars, auxvars>>

\* ------------------------------------------------------------------------
\* Part V : threads of the WebRTC server
\* ------------------------------------------------------------------------

\* the threads that call the server's API, and the render thread
ApiThreads == {"api1", "api2"}
RenderThread == "render"
Threads == ApiThreads \cup {RenderThread}

\* the members of SessionConfig in declaration order, in two halves: a
\* struct copy copies the first half before the second
FirstMembers == {"quality", "orientation", "animate", "animation_speed"}
LastMembers == {"animation_duration", "paused", "current_slice"}

\* dst after the members in F have been copied from src
CopyMembers(dst, src, F) ==
    [f \in DOMAIN dst |-> IF f \in F THEN src[f] ELSE dst[f]]

\* the control messages the API threads send to the session
ThreadMessages ==
    {[type |-> "SLICE_ORIENTATION", session_id |-> "A",
      parameters |-> "orientation" :> "YZ"],
     [type |-> "PAUSE_RESUME", session_id |-> "A",
      parameters |-> "paused" :> "true"],
     [type |-> "FRAME_RATE", session_id |-> "A",
      parameters |-> "fps" :> "30"]}

NoMessage == [type |-> "none", session_id |-> "", parameters |-> << >>]

\* mutation of TryLock: the mutex is taken whoever holds it
TryLockAlways(mutex) == TRUE

\* std::lock_guard construction returns once the mutex is free
TryLock(mutex) == mutex = "free"

RECURSIVE ConfigAfter(_, _)
\* config after the control messages of ms have been applied in order
ConfigAfter(config, ms) ==
    IF ms = << >> THEN config
    ELSE ConfigAfter(ApplyControl(config, Head(ms)), Tail(ms))

\* config_changed at the end of the switch of handle_control_message
ConfigChanged(m) ==
    \/ m.type = "SLICE_ORIENTATION" /\ "orientation" \in DOMAIN m.parameters
    \/ m.type = "ANIMATION_SPEED" /\ "speed" \in DOMAIN m.parameters
    \/ m.type = "PAUSE_RESUME" /\ "paused" \in DOMAIN m.parameters
    \/ m.type = "RESTART_ANIMATION"
    \/ m.type = "QUALITY_LEVEL" /\ "quality" \in DOMAIN m.parameters

InitThreads ==
    /\ sessions_mutex_ = "free"
    /\ rtc_stats_mutex_ = "free"
    /\ tpc = [t \in Threads |-> IF t = RenderThread THEN "r_lock" ELSE "idle"]
    /\ tmsg = [t \in ApiThreads |-> NoMessage]
    /\ tlocal = [t \in Threads |-> DefaultConfig]
    /\ config_ = DefaultConfig
    /\ in_map = FALSE
    /\ applied = << >>
    /\ calls = 0

\* a signalling thread calls create_session, leave_session or
\* handle_control_message(m) and arrives at the lock_guard
ApiCall(t, op, m) ==
    /\ tpc[t] = "idle"
    /\ calls < MaxCalls
    /\ calls' = calls + 1
    /\ tpc' = [tpc EXCEPT ![t] = op]
    /\ tmsg' = [tmsg EXCEPT ![t] = IF op = "ctl_lock" THEN m ELSE NoMessage]
    /\ UNCHANGED <<sessions_mutex_, rtc_stats_mutex_, tlocal, config_, in_map,
                   applied>>
    /\ UNCHANGED <<basevars, stvars, cvvars>>

\* create_session, leave_session, handle_control_message:
\* std::lock_guard<std::mutex> lock(sessions_mutex_)
ApiLock(t) ==
    /\ tpc[t] \in {"create_lock", "leave_lock", "ctl_lock"}
    /\ TryLock(sessions_mutex_)
    /\ sessions_mutex_' = t
    /\ tpc' = [tpc EXCEPT ![t] = CASE tpc[t] = "create_lock" -> "create_insert"
                                    [] tpc[t] = "leave_lock" -> "leave_erase"
                                    [] tpc[t] = "ctl_lock" -> "ctl_find"]
    /\ UNCHANGED <<rtc_stats_mutex_, tmsg, tlocal, config_, in_map, applied,
                   calls>>
    /\ UNCHANGED <<basevars, stvars, cvvars>>

\* create_session: sessions_[session_id] = std::move(session), return
create_insert(t) ==
    /\ tpc[t] = "create_insert"
    /\ IF in_map
       THEN UNCHANGED <<in_map, config_, applied>>
       ELSE /\ in_map' = TRUE
            /\ config_' = DefaultConfig
            /\ applied' = << >>
    /\ sessions_mutex_' = "free"
    /\ tpc' = [tpc EXCEPT ![t] = "idle"]
    /\ UNCHANGED <<rtc_stats_mutex_, tmsg, tlocal, calls>>
    /\ UNCHANGED <<basevars, stvars, cvvars>>

\* leave_session of the last client: sessions_.erase(it), return
leave_erase(t) ==
    /\ tpc[t] = "leave_erase"
    /\ in_map' = FALSE
    /\ sessions_mutex_' = "free"
    /\ tpc' = [tpc EXCEPT ![t] = "idle"]
    /\ UNCHANGED <<rtc_stats_mutex_, tmsg, tlocal, config_, applied, calls>>
    /\ UNCHANGED <<basevars, stvars, cvvars>>

\* handle_control_message: sessions_.find; return when the session is absent
ctl_find(t) ==
    /\ tpc[t] = "ctl_find"
    /\ IF in_map
       THEN /\ tpc' = [tpc EXCEPT ![t] = "ctl_get1"]
            /\ UNCHANGED sessions_mutex_
       ELSE /\ tpc' = [tpc EXCEPT ![t] = "idle"]
            /\ sessions_mutex_' = "free"
    /\ UNCHANGED <<rtc_stats_mutex_, tmsg, tlocal, config_, in_map, applied,
                   calls>>
    /\ UNCHANGED <<basevars, stvars, cvvars>>

\* get_config() returns config_ by value: the first members are copied
get_config_first(t) ==
    /\ tpc[t] \in {"ctl_get1", "r_get1"}
    /\ tlocal' = [tlocal EXCEPT ![t] = CopyMembers(@, config_, FirstMembers)]
    /\ tpc' = [tpc EXCEPT ![t] = IF t = RenderThread THEN "r_get2"
                                 ELSE "ctl_get2"]
    /\ UNCHANGED <<sessions_mutex_, rtc_stats_mutex_, tmsg, config_, in_map,
                   applied, calls>>
    /\ UNCHANGED <<basevars, stvars, cvvars>>

\* get_config(): the last members are copied
get_config_last(t) ==
    /\ tpc[t] \in {"ctl_get2", "r_get2"}
    /\ tlocal' = [tlocal EXCEPT ![t] = CopyMembers(@, config_, LastMembers)]
    /\ tpc' = [tpc EXCEPT ![t] = IF t = RenderThread THEN "r_render"
                                 ELSE "ctl_switch"]
    /\ UNCHANGED <<sessions_mutex_, rtc_stats_mutex_, tmsg, config_, in_map,
                   applied, calls>>
    /\ UNCHANGED <<basevars, stvars, cvvars>>

\* handle_control_message: the switch on the local copy; return when
\* config_changed stayed false
ctl_switch(t) ==
    /\ tpc[t] = "ctl_switch"
    /\ tlocal' = [tlocal EXCEPT ![t] = ApplyControl(@, tmsg[t])]
    /\ IF ConfigChanged(tmsg[t])
       THEN /\ tpc' = [tpc EXCEPT ![t] = "ctl_put1"]
            /\ UNCHANGED sessions_mutex_
       ELSE /\ tpc' = [tpc EXCEPT ![t] = "idle"]
            /\ sessions_mutex_' = "free"
    /\ UNCHANGED <<rtc_stats_mutex_, tmsg, config_, in_map, applied, calls>>
    /\ UNCHANGED <<basevars, stvars, cvvars>>

\* update_config: config_ = new_config, the first members
update_config_first(t) ==
    /\ tpc[t] = "ctl_put1"
    /\ config_' = CopyMembers(config_, tlocal[t], FirstMembers)
    /\ tpc' = [tpc EXCEPT ![t] = "ctl_put2"]
    /\ UNCHANGED <<sessions_mutex_, rtc_stats_mutex_, tmsg, tlocal, in_map,
                   applied, calls>>
    /\ UNCHANGED <<basevars, stvars, cvvars>>

\* update_config: the last members; handle_control_message returns
update_config_last(t) ==
    /\ tpc[t] = "ctl_put2"
    /\ config_' = CopyMembers(config_, tlocal[t], LastMembers)
    /\ applied' = Append(applied, tmsg[t])
    /\ sessions_mutex_' = "free"
    /\ tpc' = [tpc EXCEPT ![t] = "idle"]
    /\ UNCHANGED <<rtc_stats_mutex_, tmsg, tlocal, in_map, calls>>
    /\ UNCHANGED <<basevars, stvars, cvvars>>

\* render_loop: lock_guard on sessions_mutex_, the loop over sessions_
\* begins
render_lock ==
    /\ tpc[RenderThread] = "r_lock"
    /\ TryLock(sessions_mutex_)
    /\ sessions_mutex_' = RenderThread
    /\ tpc' = [tpc EXCEPT ![RenderThread] = "r_iter"]
    /\ UNCHANGED <<rtc_stats_mutex_, tmsg, tlocal, config_, in_map, applied,
                   calls>>
    /\ UNCHANGED <<basevars, stvars, cvvars>>

\* render_loop: for (auto& [id, session] : sessions_): render_session is
\* entered for the session, or the loop ends and the lock is released
render_iterate ==
    /\ tpc[RenderThread] = "r_iter"
    /\ IF in_map
       THEN /\ tpc' = [tpc EXCEPT ![RenderThread] = "r_get1"]
            /\ UNCHANGED sessions_mutex_
       ELSE /\ tpc' = [tpc EXCEPT ![RenderThread] = "r_stats_lock"]
            /\ sessions_mutex_' = "free"
    /\ UNCHANGED <<rtc_stats_mutex_, tmsg, tlocal, config_, in_map, applied,
                   calls>>
    /\ UNCHANGED <<basevars, stvars, cvvars>>

\* render_session: render_vds_frame and encode_frame with the copied
\* configuration; the loop ends and the lock is released
render_call ==
    /\ tpc[RenderThread] = "r_render"
    /\ sessions_mutex_' = "free"
    /\ tpc' = [tpc EXCEPT ![RenderThread] = "r_stats_lock"]
    /\ UNCHANGED <<rtc_stats_mutex_, tmsg, tlocal, config_, in_map, applied,
                   calls>>
    /\ UNCHANGED <<basevars, stvars, cvvars>>

\* update_stats: lock_guard on stats_mutex_; due tells whether a second
\* has elapsed, so that sessions_ is iterated
update_stats_lock(due) ==
    /\ tpc[RenderThread] = "r_stats_lock"
    /\ TryLock(rtc_stats_mutex_)
    /\ IF due
       THEN /\ rtc_stats_mutex_' = RenderThread
            /\ tpc' = [tpc EXCEPT ![RenderThread] = "r_stats_iter"]
       ELSE /\ UNCHANGED rtc_stats_mutex_
            /\ tpc' = [tpc EXCEPT ![RenderThread] = "r_lock"]
    /\ UNCHANGED <<sessions_mutex_, tmsg, tlocal, config_, in_map, applied,
                   calls>>
    /\ UNCHANGED <<basevars, stvars, cvvars>>

\* update_stats: sessions_.size() and the loop over sessions_ are done,
\* return; the render loop sleeps and starts its next iteration
update_stats_iterate ==
    /\ tpc[RenderThread] = "r_stats_iter"
    /\ rtc_stats_mutex_' = "free"
    /\ tpc' = [tpc EXCEPT ![RenderThread] = "r_lock"]
    /\ UNCHANGED <<sessions_mutex_, tmsg, tlocal, config_, in_map, applied,
                   calls>>
    /\ UNCHANGED <<basevars, stvars, cvvars>>

\* ------------------------------------------------------------------------
\* Part VI : StreamingServer statistics
\* ------------------------------------------------------------------------

\* pkt->size of every packet
PacketSize == 2

ZeroStats == [frames_encoded |-> 0, bytes_sent |-> 0, frames_rendered |-> 0]

InitStats ==
    /\ stats_mutex_ = "free"
    /\ stats_ = ZeroStats
    /\ spc = "tick"
    /\ sreg = 0
    /\ gpc = "idle"
    /\ snapshot = ZeroStats

\* render_loop calls encode_and_send_frame; the encoder returns a packet
\* (more) or none, in which case update_stats is called
StatsTick(more) ==
    /\ spc = "tick"
    /\ IF more
       THEN /\ stats_.frames_encoded < MaxEncoded
            /\ spc' = "encoded_load"
       ELSE spc' = "update_lock"
    /\ UNCHANGED <<stats_mutex_, stats_, sreg, gpc, snapshot>>
    /\ UNCHANGED <<basevars, thvars, cvvars>>

\* encode_and_send_frame: stats_.frames_encoded++, the load
frames_encoded_load ==
    /\ spc = "encoded_load"
    /\ sreg' = stats_.frames_encoded
    /\ spc' = "encoded_store"
    /\ UNCHANGED <<stats_mutex_, stats_, gpc, snapshot>>
    /\ UNCHANGED <<basevars, thvars, cvvars>>

\* encode_and_send_frame: stats_.frames_encoded++, the store
frames_encoded_store ==
    /\ spc = "encoded_store"
    /\ stats_' = [stats_ EXCEPT !.frames_encoded = sreg + 1]
    /\ spc' = "bytes_load"
    /\ UNCHANGED <<stats_mutex_, sreg, gpc, snapshot>>
    /\ UNCHANGED <<basevars, thvars, cvvars>>

\* encode_and_send_frame: stats_.bytes_sent += pkt->size, the load
bytes_sent_load ==
    /\ spc = "bytes_load"
    /\ sreg' = stats_.bytes_sent
    /\ spc' = "bytes_store"
    /\ UNCHANGED <<stats_mutex_, stats_, gpc, snapshot>>
    /\ UNCHANGED <<basevars, thvars, cvvars>>

\* encode_and_send_frame: stats_.bytes_sent += pkt->size, the store; the
\* while loop asks the encoder for the next packet
bytes_sent_store ==
    /\ spc = "bytes_store"
    /\ stats_' = [stats_ EXCEPT !.bytes_sent = sreg + PacketSize]
    /\ spc' = "tick"
    /\ UNCHANGED <<stats_mutex_, sreg, gpc, snapshot>>
    /\ UNCHANGED <<basevars, thvars, cvvars>>

\* update_stats: lock_guard on stats_mutex_
update_stats_enter ==
    /\ spc = "update_lock"
    /\ stats_mutex_ = "free"
    /\ stats_mutex_' = "render"
    /\ spc' = "update_write"
    /\ UNCHANGED <<stats_, sreg, gpc, snapshot>>
    /\ UNCHANGED <<basevars, thvars, cvvars>>

\* update_stats: stats_.frames_rendered++ and return
update_stats_write ==
    /\ spc = "update_write"
    /\ stats_' = [stats_ EXCEPT
                     !.frames_rendered = (@ + 1) % (MaxEncoded + 1)]
    /\ stats_mutex_' = "free"
    /\ spc' = "tick"
    /\ UNCHANGED <<sreg, gpc, snapshot>>
    /\ UNCHANGED <<basevars, thvars, cvvars>>

\* get_stats: lock_guard on stats_mutex_
get_stats_enter ==
    /\ gpc = "idle"
    /\ stats_mutex_ = "free"
    /\ stats_mutex_' = "main"
    /\ gpc' = "copy_encoded"
    /\ UNCHANGED <<stats_, spc, sreg, snapshot>>
    /\ UNCHANGED <<basevars, thvars, cvvars>>

\* get_stats: return stats_, the copy of frames_encoded
get_stats_copy_encoded ==
    /\ gpc = "copy_encoded"
    /\ snapshot' = [snapshot EXCEPT !.frames_encoded = stats_.frames_encoded]
    /\ gpc' = "copy_rest"
    /\ UNCHANGED <<stats_mutex_, stats_, spc, sreg>>
    /\ UNCHANGED <<basevars, thvars, cvvars>>

\* get_stats: return stats_, the copy of the other members; the lock is
\* released
get_stats_copy_rest ==
    /\ gpc = "copy_rest"
    /\ snapshot' = [snapshot EXCEPT !.bytes_sent = stats_.bytes_sent,
                                    !.frames_rendered = stats_.frames_rendered]
    /\ stats_mutex_' = "free"
    /\ gpc' = "idle"
    /\ UNCHANGED <<stats_, spc, sreg>>
    /\ UNCHANGED <<basevars, thvars, cvvars>>

\* ------------------------------------------------------------------------
\* Part VII : stop() and the condition variable of send_loop
\* ------------------------------------------------------------------------

\* the server is running with one accepted client whose send thread is at
\* the top of send_loop
InitCv ==
    /\ cv_running = TRUE
    /\ cv_connected = TRUE
    /\ cv_socket = TRUE
    /\ cv_queue = 0
    /\ cv_mutex = "free"
    /\ cv_sender = "while"
    /\ cv_render = "tick"
    /\ cv_stop = "idle"

\* queue_cv_.notify_one(): a thread blocked in wait() is woken; when no
\* thread is blocked the notification has no effect
notify_one(sender) == IF sender = "wait" THEN "woken" ELSE sender

\* send_loop: while (connected_)
send_loop_while ==
    /\ cv_sender = "while"
    /\ cv_sender' = IF cv_connected THEN "lock" ELSE "exited"
    /\ UNCHANGED <<cv_running, cv_connected, cv_socket, cv_queue, cv_mutex,
                   cv_render, cv_stop>>
    /\ UNCHANGED <<basevars, thvars, stvars>>

\* send_loop: std::unique_lock lock(queue_mutex_), and the re-acquisition of
\* the mutex by wait() after a wake-up
send_loop_lock ==
    /\ cv_sender \in {"lock", "woken"}
    /\ cv_mutex = "free"
    /\ cv_mutex' = "sender"
    /\ cv_sender' = "pred"
    /\ UNCHANGED <<cv_running, cv_connected, cv_socket, cv_queue, cv_render,
                   cv_stop>>
    /\ UNCHANGED <<basevars, thvars, stvars>>

\* queue_cv_.wait(lock, pred): the predicate
\* !send_queue_.empty() || !connected_ is evaluated
send_loop_pred ==
    /\ cv_sender = "pred"
    /\ cv_sender' = IF cv_queue > 0 \/ ~cv_connected THEN "locked" ELSE "block"
    /\ UNCHANGED <<cv_running, cv_connected, cv_socket, cv_queue, cv_mutex,
                   cv_render, cv_stop>>
    /\ UNCHANGED <<basevars, thvars, stvars>>

\* queue_cv_.wait(lock, pred): the predicate was false, wait(lock) releases
\* the mutex and blocks
send_loop_block ==
    /\ cv_sender = "block"
    /\ cv_mutex' = "free"
    /\ cv_sender' = "wait"
    /\ UNCHANGED <<cv_running, cv_connected, cv_socket, cv_queue, cv_render,
                   cv_stop>>
    /\ UNCHANGED <<basevars, thvars, stvars>>

\* send_loop after the wait: break when disconnected, else pop the front
\* frame and unlock
send_loop_locked ==
    /\ cv_sender = "locked"
    /\ cv_mutex' = "free"
    /\ IF ~cv_connected
       THEN /\ cv_sender' = "exited"
            /\ UNCHANGED cv_queue
       ELSE IF cv_queue > 0
       THEN /\ cv_sender' = "send"
            /\ cv_queue' = cv_queue - 1
       ELSE /\ cv_sender' = "while"
            /\ UNCHANGED cv_queue
    /\ UNCHANGED <<cv_running, cv_connected, cv_socket, cv_render, cv_stop>>
    /\ UNCHANGED <<basevars, thvars, stvars>>

\* send_loop: header and data are sent; on a closed socket send() fails,
\* connected_ = false, break
send_loop_send ==
    /\ cv_sender = "send"
    /\ IF cv_socket
       THEN /\ cv_sender' = "while"
            /\ UNCHANGED cv_connected
       ELSE /\ cv_sender' = "exited"
            /\ cv_connected' = FALSE
    /\ UNCHANGED <<cv_running, cv_socket, cv_queue, cv_mutex, cv_render,
                   cv_stop>>
    /\ UNCHANGED <<basevars, thvars, stvars>>

\* render_loop: while (running_), a frame is encoded and broadcast
cv_render_tick ==
    /\ cv_render = "tick"
    /\ cv_render' = IF cv_running THEN "send_frame" ELSE "exited"
    /\ UNCHANGED <<cv_running, cv_connected, cv_socket, cv_queue, cv_mutex,
                   cv_sender, cv_stop>>
    /\ UNCHANGED <<basevars, thvars, stvars>>

\* ClientConnection::send_frame: return false when disconnected, else push
\* under queue_mutex_
cv_send_frame ==
    /\ cv_render = "send_frame"
    /\ IF ~cv_connected
       THEN /\ cv_render' = "tick"
            /\ UNCHANGED cv_queue
       ELSE /\ cv_mutex = "free"
            /\ cv_queue < MaxQueued
            /\ cv_queue' = cv_queue + 1
            /\ cv_render' = "notify"
    /\ UNCHANGED <<cv_running, cv_connected, cv_socket, cv_mutex, cv_sender,
                   cv_stop>>
    /\ UNCHANGED <<basevars, thvars, stvars>>

\* ClientConnection::send_frame: queue_cv_.notify_one()
cv_send_frame_notify ==
    /\ cv_render = "notify"
    /\ cv_sender' = notify_one(cv_sender)
    /\ cv_render' = "tick"
    /\ UNCHANGED <<cv_running, cv_connected, cv_socket, cv_queue, cv_mutex,
                   cv_stop>>
    /\ UNCHANGED <<basevars, thvars, stvars>>

\* StreamingServer::stop: running_ = false, then the render thread is joined
cv_stop_begin ==
    /\ cv_stop = "idle"
    /\ cv_running' = FALSE
    /\ cv_stop' = "join_render"
    /\ UNCHANGED <<cv_connected, cv_socket, cv_queue, cv_mutex, cv_sender,
                   cv_render>>
    /\ UNCHANGED <<basevars, thvars, stvars>>

\* StreamingServer::stop: render_thread_.join() returns
cv_stop_joined_render ==
    /\ cv_stop = "join_render"
    /\ cv_render = "exited"
    /\ cv_stop' = "flag"
    /\ UNCHANGED <<cv_running, cv_connected, cv_socket, cv_queue, cv_mutex,
                   cv_sender, cv_render>>
    /\ UNCHANGED <<basevars, thvars, stvars>>

\* ClientConnection::disconnect: connected_ = false; called by stop() and
\* again by ~ClientConnection
cv_disconnect_flag ==
    /\ cv_stop \in {"flag", "dtor_flag"}
    /\ cv_connected' = FALSE
    /\ cv_stop' = IF cv_stop = "flag" THEN "notify" ELSE "dtor_notify"
    /\ UNCHANGED <<cv_running, cv_socket, cv_queue, cv_mutex, cv_sender,
                   cv_render>>
    /\ UNCHANGED <<basevars, thvars, stvars>>

\* ClientConnection::disconnect: queue_cv_.notify_one(), without the mutex
cv_disconnect_notify ==
    /\ cv_stop \in {"notify", "dtor_notify"}
    /\ cv_sender' = notify_one(cv_sender)
    /\ cv_stop' = IF cv_stop = "notify" THEN "close" ELSE "dtor_close"
    /\ UNCHANGED <<cv_running, cv_connected, cv_socket, cv_queue, cv_mutex,
                   cv_render>>
    /\ UNCHANGED <<basevars, thvars, stvars>>

\* ClientConnection::disconnect: close(socket_fd_); after the second call
\* the destructor goes on to join the send thread
cv_disconnect_close ==
    /\ cv_stop \in {"close", "dtor_close"}
    /\ cv_socket' = FALSE
    /\ cv_stop' = IF cv_stop = "close" THEN "dtor_flag" ELSE "join"
    /\ UNCHANGED <<cv_running, cv_connected, cv_queue, cv_mutex, cv_sender,
                   cv_render>>
    /\ UNCHANGED <<basevars, thvars, stvars>>

\* ~ClientConnection: send_thread_.join() returns, stop() returns
cv_stop_joined_sender ==
    /\ cv_stop = "join"
    /\ cv_sender = "exited"
    /\ cv_stop' = "done"
    /\ UNCHANGED <<cv_running, cv_connected, cv_socket, cv_queue, cv_mutex,
                   cv_sender, cv_render>>
    /\ UNCHANGED <<basevars, thvars, stvars>>

Init ==
    /\ InitTCP /\ InitRTC /\ InitPace /\ InitClient /\ InitThreads
    /\ InitStats /\ InitCv

Next ==
    \/ Start
    \/ \E c \in Conns : AcceptClient(c)
    \/ \E c \in Conns : HandleClientHeader(c)
    \/ \E c \in Conns : HandleClientPayload(c)
    \/ RenderTick
    \/ RenderLoopExit
    \/ BroadcastBegin
    \/ BroadcastSend
    \/ BroadcastEnd
    \/ \E c \in Conns : SendLoopTop(c)
    \/ \E c \in Conns : SendLoopBreak(c)
    \/ \E c \in Conns : SendLoopPop(c)
    \/ \E c \in Conns : SendHeader(c)
    \/ \E c \in Conns : SendPayload(c)
    \/ StopBegin
    \/ StopDisconnect
    \/ StopClear

Spec == Init /\ [][Next]_vars

\* the connection whose socket contents are followed byte by byte
WireConns == {1}

\* the TCP server with one connection whose send() calls may also accept only
\* part of the bytes offered
NextWire ==
    \/ Start
    \/ \E c \in WireConns : AcceptClient(c)
    \/ \E c \in WireConns : HandleClientHeader(c)
    \/ \E c \in WireConns : HandleClientPayload(c)
    \/ RenderTick
    \/ RenderLoopExit
    \/ BroadcastBegin
    \/ BroadcastSend
    \/ BroadcastEnd
    \/ \E c \in WireConns : SendLoopTop(c)
    \/ \E c \in WireConns : SendLoopBreak(c)
    \/ \E c \in WireConns : SendLoopPop(c)
    \/ \E c \in WireConns : SendHeader(c)
    \/ \E c \in WireConns : SendHeaderShort(c)
    \/ \E c \in WireConns : SendPayload(c)
    \/ \E c \in WireConns : SendPayloadShort(c)
    \/ StopBegin
    \/ StopDisconnect
    \/ StopClear

SpecWire == Init /\ [][NextWire]_vars

\* the TCP server with one connection whose owner may call start() and
\* stop() any number of times, one call after the other
NextLifecycle ==
    \/ start
    \/ \E c \in WireConns : AcceptClient(c)
    \/ \E c \in WireConns : HandleClientHeader(c)
    \/ \E c \in WireConns : HandleClientPayload(c)
    \/ RenderTick
    \/ RenderLoopExit
    \/ BroadcastBegin
    \/ BroadcastSend
    \/ BroadcastEnd
    \/ \E c \in WireConns : SendLoopTop(c)
    \/ \E c \in WireConns : SendLoopBreak(c)
    \/ \E c \in WireConns : SendLoopPop(c)
    \/ \E c \in WireConns : SendHeader(c)
    \/ \E c \in WireConns : SendPayload(c)
    \/ StopBegin
    \/ StopDisconnect
    \/ StopClear

SpecLifecycle == Init /\ [][NextLifecycle]_vars

\* the steps of the send thread, of the render thread and of stop()
SenderNext ==
    \/ send_loop_while
    \/ send_loop_lock
    \/ send_loop_pred
    \/ send_loop_block
    \/ send_loop_locked
    \/ send_loop_send

RenderNext ==
    \/ cv_render_tick
    \/ cv_send_frame
    \/ cv_send_frame_notify

StopNext ==
    \/ cv_stop_begin
    \/ cv_stop_joined_render
    \/ cv_disconnect_flag
    \/ cv_disconnect_notify
    \/ cv_disconnect_close
    \/ cv_stop_joined_sender

NextStop == SenderNext \/ RenderNext \/ StopNext

\* every thread that can take a step eventually takes one
SpecStop ==
    /\ Init
    /\ [][NextStop]_vars
    /\ WF_vars(SenderNext)
    /\ WF_vars(RenderNext)
    /\ WF_vars(StopNext)

\* the statistics of the streaming server: the render thread and a reader
NextStats ==
    \/ \E more \in BOOLEAN : StatsTick(more)
    \/ frames_encoded_load
    \/ frames_encoded_store
    \/ bytes_sent_load
    \/ bytes_sent_store
    \/ update_stats_enter
    \/ update_stats_write
    \/ get_stats_enter
    \/ get_stats_copy_encoded
    \/ get_stats_copy_rest

SpecStats == Init /\ [][NextStats]_vars

\* the threads of the WebRTC server
NextThreads ==
    \/ \E t \in ApiThreads, op \in {"create_lock", "leave_lock"} :
          ApiCall(t, op, NoMessage)
    \/ \E t \in ApiThreads, m \in ThreadMessages : ApiCall(t, "ctl_lock", m)
    \/ \E t \in ApiThreads :
          \/ ApiLock(t)
          \/ create_insert(t)
          \/ leave_erase(t)
          \/ ctl_find(t)
          \/ ctl_switch(t)
          \/ update_config_first(t)
          \/ update_config_last(t)
    \/ \E t \in Threads :
          \/ get_config_first(t)
          \/ get_config_last(t)
    \/ render_lock
    \/ render_iterate
    \/ render_call
    \/ \E due \in BOOLEAN : update_stats_lock(due)
    \/ update_stats_iterate

SpecThreads == Init /\ [][NextThreads]_vars

\* the test client against a peer that writes any messages
NextClient ==
    \/ \E m \in Messages : ServerWrites(m)
    \/ \E ok \in BOOLEAN : connect_to_server(ok)
    \/ connect_to_server_header
    \/ connect_to_server_config
    \/ connect_to_server_recv_fails
    \/ start_receiving
    \/ receive_loop_while
    \/ receive_loop_header
    \/ receive_loop_payload
    \/ receive_loop_recv_fails
    \/ client_stop
    \/ client_disconnect

SpecClient == Init /\ [][NextClient]_vars

\* the pacing of the render loops
NextPace ==
    \/ \E loop \in PaceLoops : PaceStart(loop)
    \/ \E w \in Work : PaceTick(w)

SpecPace == Init /\ [][NextPace]_vars

\* the WebRTC server: sessions, clients, control messages and the render loop
NextRTC ==
    \/ RtcStart
    \/ \E sid \in CtlSessions, cfg \in CreateConfigs, initok \in BOOLEAN :
          create_session(sid, cfg, initok)
    \/ \E sid \in CtlSessions, cid \in CtlClients, pcok, streamok \in BOOLEAN :
          join_session(sid, cid, pcok, streamok)
    \/ \E sid \in CtlSessions, cid \in CtlClients : leave_session(sid, cid)
    \/ \E m \in ControlMessages(CtlSessions) : handle_control_message(m)
    \/ RtcRenderTick

SpecRTC == Init /\ [][NextRTC]_vars

\* one session under every control message and the render loop
AnimSessions == {"A"}

NextAnim ==
    \/ RtcStart
    \/ \E cfg \in CreateConfigs, initok \in BOOLEAN :
          create_session("A", cfg, initok)
    \/ \E cid \in CtlClients, pcok, streamok \in BOOLEAN :
          join_session("A", cid, pcok, streamok)
    \/ \E cid \in CtlClients : leave_session("A", cid)
    \/ \E m \in ControlMessages(AnimSessions) : handle_control_message(m)
    \/ RtcRenderTick

SpecAnim == Init /\ [][NextAnim]_vars

\* the session registry alone: create, join and leave
NextReg ==
    \/ \E sid \in RegSessions, initok \in BOOLEAN :
          create_session(sid, DefaultConfig, initok)
    \/ \E sid \in RegSessions, cid \in RegClients, pcok, streamok \in BOOLEAN :
          join_session(sid, cid, pcok, streamok)
    \/ \E sid \in RegSessions, cid \in RegClients : leave_session(sid, cid)

SpecReg == Init /\ [][NextReg]_vars

\* the life of sessions with two clients: create, join, leave and the render
\* loop
NextLife ==
    \/ RtcStart
    \/ \E sid \in CtlSessions, initok \in BOOLEAN :
          create_session(sid, DefaultConfig, initok)
    \/ \E sid \in CtlSessions, cid \in RegClients, pcok, streamok \in BOOLEAN :
          join_session(sid, cid, pcok, streamok)
    \/ \E sid \in CtlSessions, cid \in RegClients : leave_session(sid, cid)
    \/ RtcRenderTick

SpecLife == Init /\ [][NextLife]_vars

\* ------------------------------------------------------------------------
\* Properties of Part I
\* ------------------------------------------------------------------------

\* frame ids of the writes of kind k on connection c, in write order
FramesOfKind(c, k) ==
    LET w == SelectSeq(wire[c], LAMBDA r : r.kind = k)
    IN  [i \in 1..Len(w) |-> w[i].frame]

FrameHdrs(c) == FramesOfKind(c, "FRAME_HDR")
FramePayloads(c) == FramesOfKind(c, "FRAME_PAYLOAD")

StrictlyIncreasing(s) == \A i, j \in 1..Len(s) : i < j => s[i] < s[j]

C2_ConfigFirst ==
    \A c \in Conns :
        (\E i \in 1..Len(wire[c]) : wire[c][i].kind \in {"FRAME_HDR", "FRAME_PAYLOAD"})
        => /\ Len(wire[c]) >= 2
           /\ wire[c][1].kind = "CONFIG_HDR"
           /\ wire[c][2].kind = "CONFIG_PAYLOAD"

\* frames handed to connection c: written, being written, or queued
Handed(c) ==
    FrameHdrs(c) \o (IF sendpc[c] = "header" THEN <<cur[c]>> ELSE << >>)
                \o send_queue_[c]

\* position of c in clients_
Pos(c) == CHOOSE i \in 1..Len(clients_) : clients_[i] = c

\* the last frame whose broadcast_frame loop has passed connection c
PublishedTo(c) ==
    IF renderpc = "broadcast" /\ Pos(c) >= bcIdx THEN published - 1 ELSE published

\* C3: a connection is never handed a frame published before its
\* registration, and a registered connection that is still connected has been
\* handed every frame published since its registration, in order.
C3_JoinBoundary ==
    \A c \in Conns :
        /\ \A i \in 1..Len(Handed(c)) : Handed(c)[i] > regAt[c]
        /\ (c \in SeqToSet(clients_) /\ connected_[c])
              => Handed(c) = [i \in 1..(PublishedTo(c) - regAt[c]) |-> regAt[c] + i]

\* one connection registered before the first frame has been handed two
\* frames, the other registered after both and was handed none
C3_Witness ==
    \E c, d \in Conns :
        /\ regAt[c] = 0 /\ connected_[c] /\ Len(Handed(c)) >= 2
        /\ regAt[d] >= 2 /\ connected_[d] /\ Handed(d) = << >>

\* the queue bound of the claim, below the number of frames published
QueueBound == MaxFrames - 1

\* C4 (as claimed): a connection's outbound queue never holds more than
\* its bound.
C4_QueueBounded == \A c \in Conns : Len(send_queue_[c]) <= QueueBound

C13_SequenceFromZero ==
    \A c \in Conns :
        \A i \in 1..Len(wire[c]) :
            wire[c][i].kind = "FRAME_HDR"
            => wire[c][i].sequence = wire[c][i].frame - 1

\* the bytes on a socket in arrival order, each tagged with the send() call
\* it came from and its offset in that call's buffer
RECURSIVE ByteStream(_, _)
ByteStream(w, i) ==
    IF i > Len(w) THEN << >>
    ELSE [k \in 1..w[i].bytes |-> [write |-> i, off |-> k]]
         \o ByteStream(w, i + 1)

HeaderKinds == {"CONFIG_HDR", "FRAME_HDR"}

\* a receiver that reads one fixed-size header and then payload_size bytes,
\* starting at position pos of byte stream st: every position at which it
\* starts to read a header is the first byte of a header the server sent,
\* and the bytes it reads as that header are that header
RECURSIVE ReceiverAligned(_, _, _)
ReceiverAligned(w, st, pos) ==
    IF pos > Len(st) THEN TRUE
    ELSE /\ st[pos].off = 1
         /\ w[st[pos].write].kind \in HeaderKinds
         /\ IF pos + HeaderSize - 1 > Len(st) THEN TRUE
            ELSE /\ \A k \in 1..HeaderSize :
                       st[pos + k - 1] = [write |-> st[pos].write, off |-> k]
                 /\ ReceiverAligned(w, st,
                       pos + HeaderSize + w[st[pos].write].payload_size)

\* C14 (as claimed): on every socket a receiver that reads a fixed-size
\* header and then payload_size bytes is always positioned at the start of
\* the next header, i.e. every header is followed by exactly payload_size
\* payload bytes.
C14_PayloadSizeExact ==
    \A c \in Conns : ReceiverAligned(wire[c], ByteStream(wire[c], 1), 1)

\* C19: when a send() of a header or of a payload fails in send_loop, the
\* connection's connected flag is false afterwards, the loop has exited and
\* the failed call put nothing on the socket; an exited sender never runs
\* again and no FRAME header or payload is added to its socket (so the failed
\* frame is never written again); and the connected flag of a constructed
\* connection never goes back from false to true.
C19_WriteFailureEndsSender ==
    [][ \A c \in Conns :
          /\ (sendpc[c] \in {"header", "payload"} /\ sendpc'[c] = "exited")
             => /\ ~connected_'[c]
                /\ wire'[c] = wire[c]
                /\ sendpc[c] = "payload" => cur[c] \notin SeqToSet(FramePayloads(c)')
                /\ sendpc[c] = "header" => cur[c] \notin SeqToSet(FrameHdrs(c)')
          /\ sendpc[c] = "exited"
             => /\ sendpc'[c] = "exited"
                /\ FrameHdrs(c)' = FrameHdrs(c)
                /\ FramePayloads(c)' = FramePayloads(c)
          /\ (sendpc[c] # "unborn" /\ ~connected_[c]) => ~connected_'[c] ]_vars

\* while the server runs, the payload write of a registered connection has
\* failed (its header is the last thing on the socket): the connection is
\* disconnected, its sender has exited and a later frame is still queued
C19_Witness ==
    \E c \in Conns :
        /\ running_
        /\ c \in SeqToSet(clients_)
        /\ ~connected_[c]
        /\ sendpc[c] = "exited"
        /\ wire[c] # << >>
        /\ wire[c][Len(wire[c])].kind = "FRAME_HDR"
        /\ send_queue_[c] # << >>

\* C20 (as claimed): broadcast_frame takes the client list as it is, enqueues
\* the frame, and then removes every client whose connected flag is false,
\* so that no such client is in the list when the call returns.
C20_EnqueueThenRemove ==
    [][ /\ (renderpc = "receive" /\ renderpc' = "broadcast")
              => clients_' = clients_
        /\ (renderpc = "broadcast" /\ renderpc' # "broadcast")
              => \A c \in SeqToSet(clients_') : connected_[c] ]_vars

\* C20 (amended): broadcast_frame first removes, under clients_mutex_, every
\* client whose connected flag is false and then enqueues the frame on each
\* remaining connected client; the list does not change for the rest of the
\* call.  Hence the list at return holds no client that was disconnected
\* before the call began (one that disconnects during the call stays until
\* the next publish), and every publish begins by removing the clients that
\* disconnected since the previous one.
C20_RemoveThenEnqueue ==
    [][ /\ (renderpc = "receive" /\ renderpc' = "broadcast")
              => /\ clients_mutex_' = "render"
                 /\ \A c \in Conns :
                       c \in SeqToSet(clients_')
                       <=> (c \in SeqToSet(clients_) /\ connected_[c])
        /\ renderpc = "broadcast" => clients_' = clients_
        /\ (renderpc = "broadcast" /\ bcIdx' = bcIdx + 1)
              => LET c == clients_[bcIdx]
                 IN  send_queue_'[c] = IF connected_[c]
                                       THEN Append(send_queue_[c], published)
                                       ELSE send_queue_[c] ]_vars

\* inside a broadcast_frame call: one connection that had disconnected before
\* the call is no longer in the list, the other disconnected during the call
\* and is still in it
C20_Witness ==
    \E c, d \in Conns :
        /\ running_ /\ renderpc = "broadcast"
        /\ sendpc[c] = "exited" /\ ~connected_[c] /\ c \notin SeqToSet(clients_)
        /\ ~connected_[d] /\ d \in SeqToSet(clients_)

\* the state of the frame producer: IDLE before the render thread exists,
\* RUNNING while running_ is set, STOPPING from stop()'s running_ = false
\* until render_loop has left its while loop, STOPPED afterwards
Phase ==
    IF renderpc = "unborn" THEN "IDLE"
    ELSE IF running_ THEN "RUNNING"
    ELSE IF renderpc = "stopped" THEN "STOPPED"
    ELSE "STOPPING"

\* C16 (as claimed): the producer only moves IDLE -> RUNNING -> STOPPING ->
\* STOPPED, no state is skipped or entered again; start() on a running server
\* changes nothing; once stop() has cleared running_ the render loop begins
\* no further tick and publishes nothing after it has stopped.
C16_ProducerLifecycle ==
    [][ /\ Phase' # Phase
              => <<Phase, Phase'>> \in {<<"IDLE", "RUNNING">>,
                                        <<"RUNNING", "STOPPING">>,
                                        <<"STOPPING", "STOPPED">>}
        /\ (running_ /\ start) => (renderpc' = renderpc /\ acceptpc' = acceptpc)
        /\ (~running_ /\ renderpc = "tick")
              => (published' = published /\ renderpc' \in {"tick", "stopped"})
        /\ Phase = "STOPPED" => published' = published ]_vars

NextTickStart ==
    IF pace_loop = "enhanced_render_loop"
    THEN Max(clock, next_frame_time_)
    ELSE clock

\* C17 (as claimed): a tick that finishes more than BehindLimit whole frame
\* periods after the next scheduled tick time resets the schedule to the current
\* time, adds the number of skipped ticks to frames_dropped and lets the
\* next frame begin one frame period later; a tick that finishes by the next
\* scheduled tick time advances the schedule by exactly one frame period,
\* the next frame begins at that time and frames_dropped is unchanged.
C17_SkipBacklog ==
    [][ \A w \in Work :
          PaceTick(w)
          => LET finish == frame_start' + w
                 sched == next_frame_time_ + FrameDuration
                 skipped == (finish - sched) \div FrameDuration
             IN  /\ skipped > BehindLimit
                       => /\ next_frame_time_' = finish
                          /\ frames_dropped' = frames_dropped + skipped
                          /\ NextTickStart' = finish + FrameDuration
                 /\ finish <= sched
                       => /\ next_frame_time_' = sched
                          /\ NextTickStart' = sched
                          /\ frames_dropped' = frames_dropped ]_vars

\* the connection handler reads a header whose magic is not 0x42535452
BadMagicRead ==
    /\ connect_to_server_header \/ receive_loop_header
    /\ ~HasMagic(Head(cl_rx))

\* the connection handler has returned
HandlerDone == cl_pc \in {"ended", "failed"}

\* C15 (as claimed): a header with an incorrect magic makes the connection
\* handler terminate the connection and report exactly one error: the
\* handler returns with the connection disconnected and its socket closed,
\* one error is counted, and afterwards nothing more is read from the
\* connection and no further error is reported.
C15_BadMagicTerminates ==
    [][ /\ BadMagicRead
           => /\ HandlerDone'
              /\ cl_errors' = cl_errors + 1
              /\ ~cl_connected_'
              /\ ~cl_socket_open'
        /\ HandlerDone
           => /\ HandlerDone'
              /\ cl_errors' = cl_errors
              /\ frames_received' = frames_received
              /\ Len(cl_rx') >= Len(cl_rx) ]_vars

\* ------------------------------------------------------------------------
\* Properties of Part II
\* ------------------------------------------------------------------------

\* C6 (as claimed): an iteration of the render loop publishes no frame for a
\* session whose configuration is paused.
C6_PausedPublishesNothing ==
    [][ now' # now =>
          \A sid \in DOMAIN sessions_ :
              sessions_[sid].config.paused
              => sessions_'[sid].frames_sent = sessions_[sid].frames_sent ]_vars

\* C7 (as claimed): the registry never holds more sessions than max_sessions.
C7_SessionLimit == Cardinality(DOMAIN sessions_) <= max_sessions

\* a return value that tells the caller the call failed
FailureReported(r) == r \in {"false", ""}

\* the control types handle_control_message has no case for
UnhandledTypes == {"ANIMATION_DURATION", "FRAME_RATE"}

\* C8 (as claimed): join_session, leave_session and handle_control_message
\* for a session id that is not in the registry, and a control message of a
\* type that is not handled, report a failure to the caller and change
\* neither the registry nor the animation clock.
C8_ControlErrorsReported ==
    [][ /\ \A sid \in CtlSessions \ DOMAIN sessions_ :
              ( \/ \E cid \in CtlClients, pcok, streamok \in BOOLEAN :
                      join_session(sid, cid, pcok, streamok)
                \/ \E cid \in CtlClients : leave_session(sid, cid)
                \/ \E m \in ControlMessages({sid}) : handle_control_message(m) )
              => /\ FailureReported(ret')
                 /\ UNCHANGED <<sessions_, animation_start_time_>>
        /\ \A m \in ControlMessages(DOMAIN sessions_) :
              (m.type \in UnhandledTypes /\ handle_control_message(m))
              => /\ FailureReported(ret')
                 /\ UNCHANGED <<sessions_, animation_start_time_>> ]_vars

\* the orientations render_vds_frame knows
KnownOrientations == {"XY", "XZ", "YZ"}

\* C9 (as claimed): the orientation stored in a session's configuration is
\* always a known orientation.
C9_KnownOrientation ==
    \A sid \in DOMAIN sessions_ :
        sessions_[sid].config.orientation \in KnownOrientations

\* the slice render_session would hand to the renderer for session sid now
RenderedSlice(sid) ==
    SliceIndex(sessions_[sid].config, AnimationTime(sessions_[sid].config))

\* C10 (as claimed): a control message addressed to session a leaves every
\* other session's configuration, client set, animation clock epoch and the
\* slice rendered for it unchanged.
C10_SessionsIndependent ==
    [][ \A m \in ControlMessages(CtlSessions) :
          handle_control_message(m)
          => \A b \in DOMAIN sessions_ \ {m.session_id} :
                /\ b \in DOMAIN sessions_'
                /\ sessions_'[b] = sessions_[b]
                /\ animation_start_time_' = animation_start_time_
                /\ RenderedSlice(b)' = RenderedSlice(b) ]_vars

\* C11: leave_session is idempotent.  After any leave_session(s, c) call, a
\* second leave_session(s, c) would leave the registry and the client sets of
\* all sessions exactly as the first call left them (whether the first call
\* erased the session or not), and the call returns normally (void), never a
\* failure.
C11_LeaveIdempotent ==
    [][ \A sid \in RegSessions, cid \in RegClients :
          leave_session(sid, cid)
          => /\ LeaveRegistry(sessions_', sid, cid) = sessions_'
             /\ ~FailureReported(ret') ]_vars

\* a leave_session call has returned and left a session that still has a
\* client while another client is not in it (a repeated leave of that client
\* finds the session), and one session id is absent (a repeated leave of its
\* last client finds no session)
C11_Witness ==
    /\ ret = "void"
    /\ \E sid \in DOMAIN sessions_, cid \in RegClients :
          /\ sessions_[sid].clients_ # << >>
          /\ cid \notin SeqToSet(sessions_[sid].clients_)
    /\ \E sid \in RegSessions : sid \notin DOMAIN sessions_

\* the clients of session sid in registry m
ClientsOf(m, sid) == SeqToSet(m[sid].clients_)

\* C12: when leave_session removes the last client of a session, the session
\* leaves the registry and its peer connections and media stream are
\* released; a session that keeps a client stays registered with its media
\* stream and the peer connections of the remaining clients.  The render
\* loop sends frames only for registered sessions with a media stream, and no
\* resource of an unregistered session is held.
C12_TeardownOnLastLeave ==
    [][ /\ \A sid \in DOMAIN sessions_, cid \in RegClients :
              leave_session(sid, cid)
              => /\ ClientsOf(sessions_, sid) = {cid}
                    => /\ sid \notin DOMAIN sessions_'
                       /\ sid \notin media_alive'
                       /\ \A c \in RegClients : <<sid, c>> \notin pc_open'
                 /\ ClientsOf(sessions_, sid) \ {cid} # {}
                    => /\ sid \in DOMAIN sessions_'
                       /\ ClientsOf(sessions_', sid) = ClientsOf(sessions_, sid) \ {cid}
                       /\ sid \in media_alive'
                       /\ \A c \in ClientsOf(sessions_', sid) : <<sid, c>> \in pc_open'
        /\ now' # now
              => /\ DOMAIN sessions_' = DOMAIN sessions_
                 /\ \A sid \in DOMAIN sessions_' :
                       sessions_'[sid].frames_sent # sessions_[sid].frames_sent
                       => sid \in media_alive
        /\ media_alive' \subseteq DOMAIN sessions_'
        /\ \A p \in pc_open' : p[1] \in DOMAIN sessions_' ]_vars

\* the last call was a leave_session, one session id is not registered and
\* holds no resource, the other session kept exactly one of its clients with
\* its peer connection, and the render loop has sent a frame for it
C12_Witness ==
    /\ ret = "void"
    /\ rtc_running
    /\ \E a, b \in CtlSessions :
          /\ a \notin DOMAIN sessions_
          /\ b \in DOMAIN sessions_
          /\ Cardinality(ClientsOf(sessions_, b)) = 1
          /\ sessions_[b].frames_sent >= 1
          /\ pc_open = {<<b, c>> : c \in ClientsOf(sessions_, b)}

\* the control message RESTART_ANIMATION for session sid
RestartMessage(sid) ==
    [type |-> "RESTART_ANIMATION", session_id |-> sid, parameters |-> << >>]

ConfigHistory ==
    {ConfigAfter(DefaultConfig, SubSeq(applied, 1, k)) : k \in 0..Len(applied)}

\* C22: the configuration render_session works with is the configuration
\* after a prefix of the control messages applied so far, never a mix of
\* members from before and after an update; and whenever no control message
\* is being handled, the session's configuration is the result of all the
\* control messages applied, in the order applied, so that no update is lost.
C22_ConfigSerialized ==
    /\ tpc[RenderThread] = "r_render" => tlocal[RenderThread] \in ConfigHistory
    /\ (in_map /\ \A t \in ApiThreads : tpc[t] \notin
             {"ctl_find", "ctl_get1", "ctl_get2", "ctl_switch", "ctl_put1", "ctl_put2"})
          => config_ = ConfigAfter(DefaultConfig, applied)

\* the render thread works with the configuration that two control messages
\* of different types have produced, while another control message waits for
\* the mutex
C22_Witness ==
    /\ tpc[RenderThread] = "r_render"
    /\ Len(applied) = 2
    /\ applied[1].type # applied[2].type
    /\ tlocal[RenderThread] = ConfigAfter(DefaultConfig, applied)
    /\ tlocal[RenderThread] # DefaultConfig
    /\ \E t \in ApiThreads : tpc[t] = "ctl_lock"

\* C23 (as claimed): a thread that holds the lock of the client list only
\* registers, unregisters or iterates: StreamingServer::stop closes no socket
\* and joins no sender thread while it holds clients_mutex_, and the render
\* thread of the WebRTC server does not render or encode while it holds
\* sessions_mutex_.
C23_LockOnlyForListWork ==
    [][ /\ StopDisconnect
           => \/ clients_mutex_' # "stop"
              \/ socket_open' = socket_open
        /\ StopClear => clients_mutex_ # "stop"
        /\ render_call => sessions_mutex_ # RenderThread ]_vars

\* thread t is inside a loop over sessions_ or a lookup in it
MapReading(t) ==
    tpc[t] \in {"r_iter", "r_get1", "r_get2", "r_render", "r_stats_iter",
                "ctl_find"}

\* thread t is about to insert into sessions_ or erase from it
MapWriting(t) == tpc[t] \in {"create_insert", "leave_erase"}

\* C29 (as claimed): a thread reads or writes the session map only while it
\* holds sessions_mutex_, so that no thread iterates the map while another
\* inserts or erases a session.
C29_MapUnderMutex ==
    /\ \A t \in Threads :
          (MapReading(t) \/ MapWriting(t)) => sessions_mutex_ = t
    /\ \A t, u \in Threads : ~(MapReading(t) /\ MapWriting(u))

\* the render thread is in the middle of an update of the counters
StatsWriting ==
    spc \in {"encoded_store", "bytes_load", "bytes_store", "update_write"}

\* C24 (as claimed): every update of the counters and every read by
\* get_stats() are synchronized: the render thread updates a counter only
\* while it holds stats_mutex_, get_stats() never copies while an update is
\* under way, and a snapshot holds the bytes of exactly the packets it
\* counts.
C24_StatsSynchronized ==
    /\ StatsWriting => stats_mutex_ = "render"
    /\ gpc \in {"copy_encoded", "copy_rest"} => ~StatsWriting
    /\ gpc = "idle" => snapshot.bytes_sent = snapshot.frames_encoded * PacketSize

\* C25 (as claimed): leave_session(s, c) for a session s of the registry and
\* a client c that is not in s changes nothing: s stays in the registry with
\* the same clients, also when s has no clients yet.
C25_LeaveOfNonMember ==
    [][ \A sid \in DOMAIN sessions_, cid \in RegClients :
          (cid \notin ClientsOf(sessions_, sid) /\ leave_session(sid, cid))
          => /\ sid \in DOMAIN sessions_'
             /\ sessions_' = sessions_ ]_vars

\* C30: in every session the client list has no duplicate ids and holds
\* exactly the ids that have a peer connection, and every one of these peer
\* connections is open; a join of a client that is already in the session
\* returns success and changes nothing.
C30_ClientsMatchPeerConnections ==
    [][ /\ \A sid \in DOMAIN sessions_' :
              /\ Cardinality(ClientsOf(sessions_', sid))
                    = Len(sessions_'[sid].clients_)
              /\ ClientsOf(sessions_', sid) = sessions_'[sid].peer_connections_
              /\ \A c \in ClientsOf(sessions_', sid) : <<sid, c>> \in pc_open'
        /\ \A sid \in DOMAIN sessions_, cid \in RegClients :
              ( /\ cid \in ClientsOf(sessions_, sid)
                /\ \E pcok, streamok \in BOOLEAN :
                      join_session(sid, cid, pcok, streamok) )
              => /\ ret' = "true"
                 /\ sessions_' = sessions_
                 /\ pc_open' = pc_open ]_vars

\* a repeated join has returned success for a client of a session that holds
\* two clients, while another session holds one
C30_Witness ==
    /\ ret = "true"
    /\ \E a, b \in DOMAIN sessions_ :
          /\ Len(sessions_[a].clients_) = 2
          /\ Len(sessions_[b].clients_) = 1

\* C28 (as claimed): in every iteration of the render loop the slice index
\* handed to the renderer for a session lies in [0, dimension - 1] of the
\* axis its orientation selects.
C28_SliceIndexInRange ==
    [][ RtcRenderTick
        => \A sid \in DOMAIN sessions_ :
              sessions_[sid].active_
              => /\ RenderedSlice(sid) >= 0
                 /\ RenderedSlice(sid) <=
                       Dimension(SliceAxis(sessions_[sid].config.orientation)) - 1 ]_vars

\* C27 (as claimed): after every valid header receive_loop goes on to
\* consume exactly payload_size bytes, whatever the type of the header, so
\* that the next bytes it reads as a header are not payload.
C27_ReceiverInSync ==
    [][ ( /\ receive_loop_header
          /\ HasMagic(Head(cl_rx))
          /\ SizeOf(Head(cl_rx)) > 0 )
        => /\ cl_pc' = "recv_payload"
           /\ cl_size' = SizeOf(Head(cl_rx)) ]_vars

\* C26 (as claimed): a call of stop() always returns: once running_ is
\* cleared, the render thread and the send thread exit and are joined under
\* every interleaving of disconnect() with the wait of send_loop.
C26_StopReturns == (cv_stop = "join_render") ~> (cv_stop = "done")

====
